---- MODULE Spec2Model ----
(***************************************************************************)
(* A model of setup.py, the macOS development-environment setup script.   *)
(*                                                                         *)
(* main() is modelled as a sequential process whose position is pc; one    *)
(* action per block of main(), in source order.  A dict key that may be    *)
(* absent is a set of at most one element ({} = the key is absent), so     *)
(* that dict.get(key, default) is Get(opt, default).                       *)
(***************************************************************************)
EXTENDS Integers, Sequences, FiniteSets, TLC

VARIABLES
    pc,               \* position of the process in main() / __main__
    config_file,      \* args.config on disk: whether it exists, its suffix
    args,             \* parsed command line: mode, no_notifications, dry_run
    config_data,      \* dict returned by load_config
    config,           \* the Config dataclass built by load_user_config (its
                      \* config_data field is the same dict as config_data)
    log_files,        \* what setup_logging created under ~/macos_setup_logs
    steps,            \* the step list of main(): the step names, in order
    listings,         \* the step-name listings printed to the console so far
    started,          \* kinds of external processes started with subprocess.run
    i,                \* the loop index of `for i, (name, func) in enumerate(steps, 1)`
    invoked,          \* names of the steps whose action func() has been called
    command_failed,   \* steps for which run_command logged "Command failed"/"timed out"
    pending_error,    \* str(e) of the exception travelling to the except clause
    successful_steps, \* main(): successful_steps
    failed_steps,     \* main(): failed_steps, pairs <<name, str(e)>>
    progress,         \* EnhancedProgressTracker: current_step, total_steps, completed_steps
    main_outcome,     \* how main() ended: running, return, SystemExit, KeyboardInterrupt, Exception
    exit_code,        \* the process exit code, -1 while the process runs
    logger,           \* the 'main' logger as setup_logging configured it
    log_file,         \* the entries of setup_<timestamp>.log
    console,          \* the lines on the terminal from setup_logging on: what main()
                      \* and the progress tracker print, what the handlers echo
    updates,          \* install_brew_packages: the update_progress call sites passed
    machine,          \* os.uname().machine
    files,            \* the paths that exist (home directory, Homebrew prefix, PATH)
    rc_content,       \* the text of each shell rc file, as its sequence of blocks
    fzf_install_works,\* whether the fzf install script creates ~/.fzf.zsh / ~/.fzf.bash
    additions,        \* configure_shell_paths: `additions` of the last run
    runs,             \* runs of configure_shell_paths so far
    runs_in_a_row,    \* runs since the environment last changed (2 = two or more)
    estimates,        \* TimeEstimator: self.estimates
    time_call,        \* the last call of a TimeEstimator method, with its arguments
    time_returned,    \* what that call returned
    cmd_call,         \* the last call of run_command, with its arguments and process
    cmd_returned,     \* what that call returned, or that it raised
    detail_log,       \* the entries of setup_detail_<timestamp>.log
    ssh_initial,      \* ~/.ssh before the first run of generate_ssh_key
    ssh_dir,          \* ~/.ssh: the text of `config` with its access mode, the keys
    ssh_call,         \* the last call of generate_ssh_key: its ssh section, the
                      \* outcomes of its commands, ~/.ssh before it, whether it raised
    ssh_runs          \* calls of generate_ssh_key so far

vars == << pc, config_file, args, config_data, config, log_files, steps, listings,
           started, i, invoked, command_failed, pending_error,
           successful_steps, failed_steps, progress, main_outcome, exit_code,
           logger, log_file, console, updates,
           machine, files, rc_content, fzf_install_works, additions, runs,
           runs_in_a_row, estimates, time_call, time_returned,
           cmd_call, cmd_returned, detail_log,
           ssh_initial, ssh_dir, ssh_call, ssh_runs >>

\* the state of the shell rc files and of the tools around them
paths_vars == << machine, files, rc_content, fzf_install_works, additions, runs,
                 runs_in_a_row >>

\* the TimeEstimator object and the calls made on it
time_vars == << estimates, time_call, time_returned >>

\* the calls of run_command that are followed one by one, with the detail log
command_vars == << cmd_call, cmd_returned, detail_log >>

\* ~/.ssh and the calls of generate_ssh_key that are followed one by one
ssh_vars == << ssh_initial, ssh_dir, ssh_call, ssh_runs >>

\* what main() leaves alone
beside_main == << paths_vars, time_vars, command_vars, ssh_vars >>

(***************************************************************************)
(* Bounds of the model.                                                    *)
(***************************************************************************)
\* longest step list the orchestrator loop is run on
MaxSteps == 3

(***************************************************************************)
(* Dictionaries and their defaults.                                        *)
(***************************************************************************)
Get(opt, default) == IF opt = {} THEN default ELSE CHOOSE v \in opt : TRUE

OptBool == { {}, {TRUE}, {FALSE} }

OutputMode == { "minimal", "normal", "verbose" }

\* the packages section: its 'homebrew' sub-dict (with its 'install' flag) and
\* whether it holds any other key (gui_apps, cli_tools)
EmptyPackages == [ homebrew |-> {}, gui_apps |-> FALSE ]

PackagesDicts == [ homebrew : { {} } \cup { {[install |-> f]} : f \in OptBool },
                   gui_apps : BOOLEAN ]

\* {} as parsed from an empty JSON object: every key absent
EmptyDict ==
    [ user |-> {}, output_mode |-> {}, log_level |-> {}, notifications |-> {},
      macos_configure |-> {}, ssh_generate_key |-> {}, git_configure |-> {},
      rust_install |-> {}, node_install |-> {}, omz_install |-> {},
      starship_install |-> {}, packages |-> {} ]

EmptyNotifications == [ enabled |-> {}, on_error |-> {}, on_complete |-> {} ]

\* Config(): the dataclass with its defaults
DefaultConfig ==
    [ user_name |-> "", user_email |-> "", output_mode |-> "normal",
      notifications_enabled |-> TRUE ]

(***************************************************************************)
(* The step list of main().                                                *)
(***************************************************************************)
StepOrder ==
    << "Configure macOS", "Install/Update Homebrew", "Generate SSH Key",
       "Configure Git", "Install Rust", "Install Node.js", "Install Oh My Zsh",
       "Install Starship", "Install Brew Packages", "Configure Shell PATHs" >>

When(cond, name) == IF cond THEN << name >> ELSE << >>

PackagesOf(cd) == Get(cd.packages, EmptyPackages)

HomebrewInstall(cd) ==
    Get(Get(PackagesOf(cd).homebrew, [install |-> {}]).install, TRUE)

\* a dict is truthy when it is not empty
PackagesTruthy(cd) == PackagesOf(cd) # EmptyPackages

\* mutant: the PATH step is appended before the package batch
BuildSteps_PathsBeforePackages(cd) ==
       When(Get(cd.macos_configure, TRUE), "Configure macOS")
    \o When(HomebrewInstall(cd), "Install/Update Homebrew")
    \o When(Get(cd.ssh_generate_key, TRUE), "Generate SSH Key")
    \o When(Get(cd.git_configure, TRUE), "Configure Git")
    \o When(Get(cd.rust_install, TRUE), "Install Rust")
    \o When(Get(cd.node_install, TRUE), "Install Node.js")
    \o When(Get(cd.omz_install, TRUE), "Install Oh My Zsh")
    \o When(Get(cd.starship_install, TRUE), "Install Starship")
    \o << "Configure Shell PATHs" >>
    \o When(PackagesTruthy(cd), "Install Brew Packages")

\* mutant: the Rust toolchain is opt-in (its flag defaults to False)
BuildSteps_RustOptIn(cd) ==
       When(Get(cd.macos_configure, TRUE), "Configure macOS")
    \o When(HomebrewInstall(cd), "Install/Update Homebrew")
    \o When(Get(cd.ssh_generate_key, TRUE), "Generate SSH Key")
    \o When(Get(cd.git_configure, TRUE), "Configure Git")
    \o When(Get(cd.rust_install, FALSE), "Install Rust")
    \o When(Get(cd.node_install, TRUE), "Install Node.js")
    \o When(Get(cd.omz_install, TRUE), "Install Oh My Zsh")
    \o When(Get(cd.starship_install, TRUE), "Install Starship")
    \o When(PackagesTruthy(cd), "Install Brew Packages")
    \o << "Configure Shell PATHs" >>

BuildSteps(cd) ==
       When(Get(cd.macos_configure, TRUE), "Configure macOS")
    \o When(HomebrewInstall(cd), "Install/Update Homebrew")
    \o When(Get(cd.ssh_generate_key, TRUE), "Generate SSH Key")
    \o When(Get(cd.git_configure, TRUE), "Configure Git")
    \o When(Get(cd.rust_install, TRUE), "Install Rust")
    \o When(Get(cd.node_install, TRUE), "Install Node.js")
    \o When(Get(cd.omz_install, TRUE), "Install Oh My Zsh")
    \o When(Get(cd.starship_install, TRUE), "Install Starship")
    \o When(PackagesTruthy(cd), "Install Brew Packages")
    \o << "Configure Shell PATHs" >>

(***************************************************************************)
(* The process boundary: the try/except around main().                     *)
(***************************************************************************)
\* exit code for each way main() can end: a normal return leaves the
\* interpreter with 0, sys.exit(1) passes both except clauses (SystemExit is
\* no Exception), KeyboardInterrupt and Exception are answered by sys.exit(1)
\* mutant: the interrupt is reported but the process exits with 0
TopLevel_InterruptExitsZero(outcome) ==
    CASE outcome = "return" -> 0
      [] outcome = "SystemExit" -> 1
      [] outcome = "KeyboardInterrupt" -> 0
      [] outcome = "Exception" -> 1

TopLevel(outcome) ==
    CASE outcome = "return" -> 0
      [] outcome = "SystemExit" -> 1
      [] outcome = "KeyboardInterrupt" -> 1
      [] outcome = "Exception" -> 1

\* main() ends with `outcome`; nothing of the state changes after that
Leave(outcome) ==
    /\ pc' = "exited"
    /\ main_outcome' = outcome
    /\ exit_code' = TopLevel(outcome)

(***************************************************************************)
(* Configuration loading.                                                  *)
(***************************************************************************)
\* load_config: the parsed dict, or the ValueError for a non-JSON suffix
load_config(file, content) ==
    IF ~file.exists THEN [ raised |-> FALSE, value |-> EmptyDict ]
    ELSE IF file.suffix = ".json" THEN [ raised |-> FALSE, value |-> content ]
    ELSE [ raised |-> TRUE, value |-> EmptyDict ]

\* mutant: a missing 'user' section is tolerated and the defaults are kept
load_user_config_NoExit(cd) ==
    [ exits |-> FALSE, raised |-> FALSE, config |-> DefaultConfig ]

\* load_user_config: sys.exit(1) without a 'user' section; the ValueError of
\* OutputMode(mode) for an output.mode that is no member of the enumeration;
\* else the Config
load_user_config(cd) ==
    IF cd.user = {} THEN [ exits |-> TRUE, raised |-> FALSE, config |-> DefaultConfig ]
    ELSE IF Get(cd.output_mode, "normal") \notin OutputMode
      THEN [ exits |-> FALSE, raised |-> TRUE, config |-> DefaultConfig ]
    ELSE
        LET user_data == Get(cd.user, [name |-> {}, email |-> {}])
            notif == Get(cd.notifications, EmptyNotifications)
        IN  [ exits |-> FALSE, raised |-> FALSE,
              config |->
                [ user_name |-> Get(user_data.name, ""),
                  user_email |-> Get(user_data.email, ""),
                  output_mode |-> Get(cd.output_mode, "normal"),
                  notifications_enabled |-> Get(notif.enabled, TRUE) ] ]

\* config.config_data.get('notifications', {}).get(key, True)
NotifyOn(key) ==
    LET notif == Get(config_data.notifications, EmptyNotifications)
    IN  IF key = "on_error" THEN Get(notif.on_error, TRUE)
        ELSE Get(notif.on_complete, TRUE)

(***************************************************************************)
(* Notifier.send: osascript is started with subprocess.run unless the      *)
(* start itself fails (OSError); every Exception is swallowed and reported  *)
(* with logging.debug, which installs a handler on the root logger         *)
(* (logging.basicConfig()) when that has none.                             *)
(***************************************************************************)
NotifierOutcomes == { "delivered", "nonzero", "oserror" }

\* Notifier.send is not called
NotSent == [ raised |-> FALSE, started |-> started, basic_config |-> FALSE ]

\* mutant: the OSError of a notification that cannot be sent is not caught
Notifier_send_Raises(outcome) ==
    [ raised |-> outcome = "oserror",
      started |-> IF outcome = "oserror" THEN started ELSE started \cup { "osascript" },
      basic_config |-> FALSE ]

Notifier_send(outcome) ==
    [ raised |-> FALSE,
      started |-> IF outcome = "oserror" THEN started ELSE started \cup { "osascript" },
      basic_config |-> outcome = "oserror" ]

(***************************************************************************)
(* run_command.                                                            *)
(***************************************************************************)
\* what the external process does: it exits 0, exits non-zero, outlives the
\* timeout, or cannot be started at all (FileNotFoundError, PermissionError)
CmdOutcomes == { "exit0", "nonzero", "timeout", "oserror" }

\* the external process of one call: how it ends and what it had written to
\* its stdout and stderr by then (a text is the sequence of its pieces); a
\* process that cannot be started writes nothing
Processes ==
    [ outcome : { "exit0", "nonzero", "timeout" },
      stdout : { << >>, << "out" >> }, stderr : { << >>, << "err" >> } ]
    \cup { [ outcome |-> "oserror", stdout |-> << >>, stderr |-> << >> ] }

\* a process that writes nothing
Silent(outcome) == [ outcome |-> outcome, stdout |-> << >>, stderr |-> << >> ]

\* the commands: an argument list or one shell string
Commands ==
    { [ kind |-> "list", words |-> << "brew", "list" >> ],
      [ kind |-> "str", words |-> << "brew list" >> ] }

\* run_command's default timeout, and the one install_brew_packages passes
DefaultTimeout == 300

Timeouts == { DefaultTimeout, 600 }

\* str(n) of a number n >= 0: its decimal digits
RECURSIVE Decimal(_)
Decimal(n) ==
    LET digits == << "0", "1", "2", "3", "4", "5", "6", "7", "8", "9" >>
    IN  IF n < 10 THEN << digits[n + 1] >>
        ELSE Decimal(n \div 10) \o << digits[(n % 10) + 1] >>

\* sep.join(words)
RECURSIVE Join(_, _)
Join(words, sep) ==
    IF Len(words) <= 1 THEN words
    ELSE << words[1], sep >> \o Join(Tail(words), sep)

\* cmd if isinstance(cmd, str) else ' '.join(cmd)
cmd_str(cmd) == IF cmd.kind = "str" THEN cmd.words ELSE Join(cmd.words, " ")

\* the repr of the words of an argument list
RECURSIVE ReprWords(_)
ReprWords(words) ==
    IF words = << >> THEN << >>
    ELSE << "'", words[1], "'" >>
         \o (IF Len(words) > 1 THEN << ", " >> ELSE << >>)
         \o ReprWords(Tail(words))

\* str(e) of the CalledProcessError that subprocess.run(check=True) raises
CalledProcessError_str(cmd, returncode) ==
    << "Command '" >>
    \o (IF cmd.kind = "str" THEN cmd.words
        ELSE << "[" >> \o ReprWords(cmd.words) \o << "]" >>)
    \o << "' returned non-zero exit status " >> \o Decimal(returncode) \o << "." >>

\* mutant: the TimeoutExpired of subprocess.run is not caught
run_command_TimeoutPropagates(cmd, shell, check, show_output, verbose, timeout, process) ==
    LET executing == [ level |-> "DEBUG",
                       message |-> << "Executing: " >> \o cmd_str(cmd) ]
    IN  [ raised |-> process.outcome \in { "oserror", "timeout" },
          returncode |-> IF process.outcome = "exit0" THEN 0 ELSE 1,
          stdout |-> {}, stderr |-> {},
          logged_error |-> FALSE,
          detail |-> << executing >> ]

\* run_command: the entries it appends to the detail log, and what it returns.
\* TimeoutExpired is turned into a MockResult with returncode 1;
\* CalledProcessError (non-zero exit under check) is logged and returned as the
\* result; any other exception of subprocess.run propagates (`raised`).
\* stdout and stderr of the result are None ({}) when the output was not
\* captured.  `logged_error` is whether detail_logger.error was called.
run_command(cmd, shell, check, show_output, verbose, timeout, process) ==
    LET executing == [ level |-> "DEBUG",
                       message |-> << "Executing: " >> \o cmd_str(cmd) ]
        captured == ~(show_output \/ verbose)
        returncode == IF process.outcome = "exit0" THEN 0 ELSE 1
        stdout == IF captured THEN { process.stdout } ELSE {}
        stderr == IF captured THEN { process.stderr } ELSE {}
    IN  CASE process.outcome = "oserror" ->
                [ raised |-> TRUE, returncode |-> 1, stdout |-> {}, stderr |-> {},
                  logged_error |-> FALSE,
                  detail |-> << executing >> ]
          [] process.outcome = "timeout" ->
                [ raised |-> FALSE, returncode |-> 1,
                  stdout |-> { << "Command timed out after " >> \o Decimal(timeout)
                               \o << " seconds" >> },
                  stderr |-> { << >> },
                  logged_error |-> TRUE,
                  detail |-> << executing,
                                [ level |-> "ERROR",
                                  message |-> << "Command timed out after " >>
                                      \o Decimal(timeout) \o << "s: " >>
                                      \o cmd_str(cmd) ] >> ]
          [] process.outcome = "nonzero" /\ check ->
                [ raised |-> FALSE, returncode |-> returncode,
                  stdout |-> stdout, stderr |-> stderr,
                  logged_error |-> TRUE,
                  detail |-> << executing,
                                [ level |-> "ERROR",
                                  message |-> << "Command failed: " >>
                                      \o CalledProcessError_str(cmd, returncode) ] >> ]
          [] OTHER ->
                [ raised |-> FALSE, returncode |-> returncode,
                  stdout |-> stdout, stderr |-> stderr,
                  logged_error |-> FALSE,
                  detail |->
                      << executing >>
                      \o (IF captured /\ process.stdout # << >>
                            THEN << [ level |-> "DEBUG",
                                      message |-> << "STDOUT:\n" >> \o process.stdout ] >>
                            ELSE << >>)
                      \o (IF captured /\ process.stderr # << >>
                            THEN << [ level |-> "DEBUG",
                                      message |-> << "STDERR:\n" >> \o process.stderr ] >>
                            ELSE << >>) ]

\* no call of run_command is followed
CommandIdle ==
    /\ cmd_call = [ fn |-> "none" ]
    /\ cmd_returned = [ raised |-> FALSE ]
    /\ detail_log = << >>

\* the values of check= that the run_command calls of each step function use
ChecksOf(name) ==
    CASE name = "Configure macOS" -> { TRUE }
      [] name = "Install/Update Homebrew" -> { TRUE }
      [] name = "Generate SSH Key" -> { TRUE }
      [] name = "Configure Git" -> { TRUE }
      [] name = "Install Rust" -> { TRUE, FALSE }
      [] name = "Install Node.js" -> { TRUE, FALSE }
      [] name = "Install Oh My Zsh" -> { TRUE }
      [] name = "Install Starship" -> { TRUE, FALSE }
      [] name = "Install Brew Packages" -> { FALSE }
      [] name = "Configure Shell PATHs" -> { FALSE }

(***************************************************************************)
(* EnhancedProgressTracker.                                                *)
(***************************************************************************)
NewProgress == [ current_step |-> "", total_steps |-> 0, completed_steps |-> 0 ]

\* mutant: the step being started already counts as completed
start_step_CountsCurrent(p, name, current, total) ==
    [ current_step |-> name, total_steps |-> total, completed_steps |-> current ]

start_step(p, name, current, total) ==
    [ current_step |-> name, total_steps |-> total, completed_steps |-> current - 1 ]

complete_step(p) == [ p EXCEPT !.completed_steps = p.completed_steps + 1 ]

(***************************************************************************)
(* TimeEstimator.                                                          *)
(*                                                                         *)
(* A Python str that is searched or sliced is the sequence of its          *)
(* characters; `marker in text` is the search for a contiguous run.        *)
(***************************************************************************)
\* the error texts of the runs: str(e) of the FileNotFoundError of a command
\* that cannot be started, and of a PermissionError in a step function
CommandNotFound == "[Errno 2] No such file or directory: 'command'"

PermissionDenied == "[Errno 13] Permission denied: '/Users/ada/.ssh/config'"

\* the characters of the texts of the runs: the step names of main() and the
\* error texts
Chars(text) ==
    CASE text = "" -> << >>
      [] text = "Configure macOS" ->
            << "C", "o", "n", "f", "i", "g", "u", "r", "e", " ", "m", "a", "c",
               "O", "S" >>
      [] text = "Install/Update Homebrew" ->
            << "I", "n", "s", "t", "a", "l", "l", "/", "U", "p", "d", "a", "t",
               "e", " ", "H", "o", "m", "e", "b", "r", "e", "w" >>
      [] text = "Generate SSH Key" ->
            << "G", "e", "n", "e", "r", "a", "t", "e", " ", "S", "S", "H", " ",
               "K", "e", "y" >>
      [] text = "Configure Git" ->
            << "C", "o", "n", "f", "i", "g", "u", "r", "e", " ", "G", "i",
               "t" >>
      [] text = "Install Rust" ->
            << "I", "n", "s", "t", "a", "l", "l", " ", "R", "u", "s", "t" >>
      [] text = "Install Node.js" ->
            << "I", "n", "s", "t", "a", "l", "l", " ", "N", "o", "d", "e", ".",
               "j", "s" >>
      [] text = "Install Oh My Zsh" ->
            << "I", "n", "s", "t", "a", "l", "l", " ", "O", "h", " ", "M", "y",
               " ", "Z", "s", "h" >>
      [] text = "Install Starship" ->
            << "I", "n", "s", "t", "a", "l", "l", " ", "S", "t", "a", "r", "s",
               "h", "i", "p" >>
      [] text = "Install Brew Packages" ->
            << "I", "n", "s", "t", "a", "l", "l", " ", "B", "r", "e", "w", " ",
               "P", "a", "c", "k", "a", "g", "e", "s" >>
      [] text = "Configure Shell PATHs" ->
            << "C", "o", "n", "f", "i", "g", "u", "r", "e", " ", "S", "h", "e",
               "l", "l", " ", "P", "A", "T", "H", "s" >>
      [] text = CommandNotFound ->
            << "[", "E", "r", "r", "n", "o", " ", "2", "]", " ", "N", "o", " ",
               "s", "u", "c", "h", " ", "f", "i", "l", "e", " ", "o", "r", " ",
               "d", "i", "r", "e", "c", "t", "o", "r", "y", ":", " ", "'", "c",
               "o", "m", "m", "a", "n", "d", "'" >>
      [] text = PermissionDenied ->
            << "[", "E", "r", "r", "n", "o", " ", "1", "3", "]", " ", "P", "e",
               "r", "m", "i", "s", "s", "i", "o", "n", " ", "d", "e", "n", "i",
               "e", "d", ":", " ", "'", "/", "U", "s", "e", "r", "s", "/", "a",
               "d", "a", "/", ".", "s", "s", "h", "/", "c", "o", "n", "f", "i",
               "g", "'" >>

\* the markers estimate_total_time looks for
MarkerGUI == << "G", "U", "I" >>
MarkerBrewPackages == << "B", "r", "e", "w", " ", "P", "a", "c", "k", "a", "g", "e", "s" >>
MarkerRust == << "R", "u", "s", "t" >>
MarkerNode == << "N", "o", "d", "e" >>
MarkerZsh == << "Z", "s", "h" >>

\* marker in text
In(marker, text) ==
    \E k \in 1..(Len(text) - Len(marker) + 1) :
        SubSeq(text, k, k + Len(marker) - 1) = marker

\* task names beside the step names of main(): a second GUI name, names in
\* another case, names that hold two markers
OtherTaskNames ==
    { << "I", "n", "s", "t", "a", "l", "l", " ", "G", "U", "I", " ", "A", "p", "p", "s" >>,
      << "i", "n", "s", "t", "a", "l", "l", " ", "r", "u", "s", "t" >>,
      << "R", "u", "s", "t", " ", "G", "U", "I" >>,
      << "N", "o", "d", "e", " ", "R", "u", "s", "t" >>,
      << "Z", "s", "h", " ", "N", "o", "d", "e" >>,
      << "b", "r", "e", "w", " ", "p", "a", "c", "k", "a", "g", "e", "s" >> }

\* TimeEstimator.__init__: the default estimates, in seconds
DefaultEstimates ==
    [ gui_app |-> 30, cli_tool |-> 10, rust_install |-> 120, node_install |-> 60,
      oh_my_zsh |-> 30, configuration |-> 5 ]

\* TimeEstimator.__init__: self.estimates.update(config['time_estimates']) when
\* the configuration has that section
TimeEstimator_init(time_estimates) ==
    IF time_estimates = {} THEN DefaultEstimates
    ELSE LET given == CHOOSE v \in time_estimates : TRUE
         IN  [ k \in DOMAIN DefaultEstimates \cup DOMAIN given |->
                 IF k \in DOMAIN given THEN given[k] ELSE DefaultEstimates[k] ]

\* mutant: 'Rust' is looked for before 'GUI' and 'Brew Packages'
TaskEstimate_RustFirst(est, task_name) ==
    IF In(MarkerRust, task_name) THEN est.rust_install
    ELSE IF In(MarkerGUI, task_name) \/ In(MarkerBrewPackages, task_name)
      THEN est.gui_app * 10
    ELSE IF In(MarkerNode, task_name) THEN est.node_install
    ELSE IF In(MarkerZsh, task_name) THEN est.oh_my_zsh
    ELSE est.configuration

\* the if/elif chain of estimate_total_time: what one task adds to the total
TaskEstimate(est, task_name) ==
    IF In(MarkerGUI, task_name) \/ In(MarkerBrewPackages, task_name)
      THEN est.gui_app * 10
    ELSE IF In(MarkerRust, task_name) THEN est.rust_install
    ELSE IF In(MarkerNode, task_name) THEN est.node_install
    ELSE IF In(MarkerZsh, task_name) THEN est.oh_my_zsh
    ELSE est.configuration

\* the for loop of estimate_total_time, from task k on
RECURSIVE estimate_loop(_, _, _, _)
estimate_loop(est, tasks, k, total) ==
    IF k > Len(tasks) THEN total
    ELSE estimate_loop(est, tasks, k + 1, total + TaskEstimate(est, tasks[k]))

estimate_total_time(est, tasks) == estimate_loop(est, tasks, 1, 0)

\* the clock of the model counts this many ticks in a second (datetime counts
\* microseconds); an elapsed time is a number of ticks
TicksPerSecond == 2

\* int(x) for the quotient x = num / den, den > 0: the fraction is dropped,
\* towards zero.  The quotient is exact here; the rounding error of the float
\* division is not followed.
IntOf(num, den) == IF num >= 0 THEN num \div den ELSE -((-num) \div den)

\* str(timedelta(seconds=n)), "[D day(s), ]H:MM:SS", as << D, H, MM, SS >>: the
\* days may be negative, the rest counts up from the start of the day
timedelta_str(n) ==
    LET rest == n % 86400
    IN  << n \div 86400, rest \div 3600, (rest % 3600) \div 60, rest % 60 >>

\* mutant: the average is multiplied by all the steps, not by the remaining ones
get_time_remaining_AllSteps(current_step, total_steps, elapsed) ==
    IF current_step > 0
      THEN timedelta_str(IntOf(elapsed * total_steps, current_step * TicksPerSecond))
      ELSE << "Calculating..." >>

\* get_time_remaining, with elapsed = datetime.now() - self.start_time
get_time_remaining(current_step, total_steps, elapsed) ==
    IF current_step > 0
      THEN LET remaining_steps == total_steps - current_step
           IN  timedelta_str(IntOf(elapsed * remaining_steps,
                                   current_step * TicksPerSecond))
      ELSE << "Calculating..." >>

\* no method of the TimeEstimator is called
TimeIdle ==
    /\ estimates = DefaultEstimates
    /\ time_call = [ fn |-> "none" ]
    /\ time_returned = << >>

(***************************************************************************)
(* generate_ssh_key.  ~/.ssh is [ config, access, keys ]: the text of the  *)
(* file `config` ({} while there is none) as the sequence of its pieces,   *)
(* whether that file can be read and written, and the private keys there.  *)
(***************************************************************************)
\* 'Host github.com'
HostGithub == << "Host", " ", "github.com" >>

\* key_path: ssh_dir / f"id_{key_type}_{key_name}"
KeyPath(ssh_config) ==
    << "~/.ssh/id_", Get(ssh_config.key_type, "ed25519"), "_",
       Get(ssh_config.key_name, "github") >>

\* config_content
ConfigContent(key_path) ==
    << "\n", "Host", " ", "github.com", "\n",
       "    AddKeysToAgent yes", "\n",
       "    UseKeychain yes", "\n",
       "    IdentityFile " >> \o key_path \o << "\n" >>

\* the access modes of the file: read and write, read only, neither
AccessModes == { "rw", "r", "none" }

\* run_command(cmd) of generate_ssh_key raises
CommandRaises(word, outcome) ==
    run_command([ kind |-> "list", words |-> << word >> ], FALSE, TRUE, FALSE, FALSE,
                DefaultTimeout, Silent(outcome)).raised

\* mutant: the block is appended whether or not the marker is in the file
generate_ssh_key_AlwaysAppends(ssh_config, dir, keygen, add) ==
    LET key_path == KeyPath(ssh_config)
        keys == IF key_path \notin dir.keys /\ keygen = "exit0"
                  THEN dir.keys \cup { key_path } ELSE dir.keys
    IN  IF ~Get(ssh_config.generate_key, TRUE) \/ ~Get(ssh_config.add_to_keychain, TRUE)
          THEN [ dir |-> dir, raised |-> FALSE ]
          ELSE [ dir |-> [ config |-> { Get(dir.config, << >>) \o ConfigContent(key_path) },
                           access |-> "rw", keys |-> keys ],
                 raised |-> FALSE ]

\* generate_ssh_key: ~/.ssh as the call leaves it, and whether it raised.
\* keygen and add are what becomes of the ssh-keygen and ssh-add processes.
generate_ssh_key(ssh_config, dir, keygen, add) ==
    LET key_path == KeyPath(ssh_config)
        config_content == ConfigContent(key_path)
        generated == [ dir EXCEPT !.keys = IF keygen = "exit0"
                                             THEN @ \cup { key_path } ELSE @ ]
        with_key == IF key_path \in dir.keys THEN dir ELSE generated
    IN  IF ~Get(ssh_config.generate_key, TRUE)
          THEN [ dir |-> dir, raised |-> FALSE ]
        ELSE IF key_path \notin dir.keys /\ CommandRaises("ssh-keygen", keygen)
          THEN [ dir |-> dir, raised |-> TRUE ]
        ELSE IF ~Get(ssh_config.add_to_keychain, TRUE)
          THEN [ dir |-> with_key, raised |-> FALSE ]
        ELSE IF with_key.config # {}
          THEN LET existing_content == Get(with_key.config, << >>)
               IN  IF with_key.access = "none"
                     THEN [ dir |-> with_key, raised |-> TRUE ]
                   ELSE IF In(HostGithub, existing_content)
                     THEN [ dir |-> with_key, raised |-> CommandRaises("ssh-add", add) ]
                   ELSE IF with_key.access = "r"
                     THEN [ dir |-> with_key, raised |-> TRUE ]
                   ELSE [ dir |-> [ with_key EXCEPT
                                      !.config = { existing_content \o config_content } ],
                          raised |-> CommandRaises("ssh-add", add) ]
        ELSE [ dir |-> [ with_key EXCEPT !.config = { config_content },
                                         !.access = "rw" ],
               raised |-> CommandRaises("ssh-add", add) ]

\* no call of generate_ssh_key is followed
SshIdle ==
    /\ ssh_initial = [ config |-> {}, access |-> "rw", keys |-> {} ]
    /\ ssh_dir = ssh_initial
    /\ ssh_call = [ fn |-> "none" ]
    /\ ssh_runs = 0

(***************************************************************************)
(* setup_logging and the 'main' logger.                                    *)
(*                                                                         *)
(* An entry of the log file is [ level, what, step, text ]: the message    *)
(* `what` about the step `step` with the further text `text`.  A line of   *)
(* the console is [ via, what, step, text, chars ]: written by print or    *)
(* echoed by a logging handler; `chars` holds the text where main() cuts   *)
(* it by characters.                                                       *)
(***************************************************************************)
\* the levels of the logging module, lowest first
LevelOrder == << "DEBUG", "INFO", "WARNING", "ERROR", "CRITICAL" >>

LevelNo(level) == CHOOSE k \in DOMAIN LevelOrder : LevelOrder[k] = level

\* log_level.upper()
Upper(log_level) ==
    CASE log_level = "debug" -> "DEBUG"
      [] log_level = "info" -> "INFO"
      [] log_level = "warning" -> "WARNING"
      [] log_level = "error" -> "ERROR"
      [] log_level = "critical" -> "CRITICAL"
      [] OTHER -> log_level

\* getattr(logging, log_level.upper()) raises AttributeError for other names
IsLevel(log_level) == \E k \in DOMAIN LevelOrder : LevelOrder[k] = Upper(log_level)

\* no logger is configured
NoLogger == [ level |-> "", console_level |-> "", root_handler |-> FALSE ]

\* setup_logging: the level of the 'main' logger (its file handler has none)
\* and the level of its console handler; the root logger has no handler yet
setup_logging(output_mode, log_level) ==
    [ level |-> Upper(log_level),
      console_level |-> CASE output_mode = "minimal" -> "WARNING"
                          [] output_mode = "verbose" -> "DEBUG"
                          [] OTHER -> "INFO",
      root_handler |-> FALSE ]

\* print(...)
ConsoleLine(out, what, step, text) ==
    [ out EXCEPT !.console =
        Append(@, [ via |-> "print", what |-> what, step |-> step, text |-> text,
                    chars |-> << >> ]) ]

\* print(...) of a text cut by characters
ConsoleChars(out, what, step, chars) ==
    [ out EXCEPT !.console =
        Append(@, [ via |-> "print", what |-> what, step |-> step, text |-> "",
                    chars |-> chars ]) ]

\* print(...) once for each of the names
ConsoleEach(out, what, names) ==
    [ out EXCEPT !.console =
        @ \o [ k \in 1..Len(names) |->
                 [ via |-> "print", what |-> what, step |-> names[k], text |-> "",
                   chars |-> << >> ] ] ]

\* logger.info(...), logger.error(...) on the 'main' logger lg: a record below
\* the logger's level is dropped; else it goes to the file handler, to the
\* console handler from that handler's level on, and on to the handler of the
\* root logger when logging.basicConfig() has installed one
logger_call(lg, out, level, what, step, text) ==
    IF LevelNo(level) < LevelNo(lg.level) THEN out
    ELSE LET echo(via) == [ via |-> via, what |-> what, step |-> step,
                            text |-> text, chars |-> << >> ]
         IN  [ log_file |-> Append(out.log_file,
                                   [ level |-> level, what |-> what, step |-> step,
                                     text |-> text ]),
               console |-> out.console
                   \o (IF LevelNo(level) >= LevelNo(lg.console_level)
                         THEN << echo("console_handler") >> ELSE << >>)
                   \o (IF lg.root_handler
                         THEN << echo("root_handler") >> ELSE << >>) ]

\* lines 880-886: the six startup records
LogStartup(lg, out) ==
    LET a == logger_call(lg, out, "INFO", "rule", "", "")
        b == logger_call(lg, a, "INFO", "Enhanced macOS Setup Script Started", "", "")
        c == logger_call(lg, b, "INFO", "Configuration file", "", "")
        d == logger_call(lg, c, "INFO", "Output mode", "", "")
        e == logger_call(lg, d, "INFO", "User", "", "")
    IN  logger_call(lg, e, "INFO", "rule", "", "")

\* start_step: the banner on the console unless minimal, then the log record
start_step_output(lg, mode, out, name) ==
    logger_call(lg, IF mode # "minimal" THEN ConsoleLine(out, "banner", name, "") ELSE out,
                "INFO", "Starting Step", name, "")

\* update_progress(message)
update_progress(lg, mode, out, message) ==
    logger_call(lg,
                IF mode = "verbose" THEN ConsoleLine(out, "update", "", message)
                ELSE IF mode = "normal" THEN ConsoleLine(out, "update", "", message)
                ELSE out,
                "INFO", "update", "", message)

\* mutant: at minimal verbosity complete_step writes no log record either
complete_step_output_SilentWhenMinimal(lg, mode, out, name) ==
    IF mode = "minimal" THEN out
    ELSE logger_call(lg, ConsoleLine(out, "[COMPLETE]", name, ""),
                     "INFO", "Completed", name, "")

\* complete_step: the [COMPLETE] line on the console unless minimal, then the
\* log record
complete_step_output(lg, mode, out, name) ==
    logger_call(lg, IF mode # "minimal" THEN ConsoleLine(out, "[COMPLETE]", name, "") ELSE out,
                "INFO", "Completed", name, "")

\* the messages install_brew_packages hands to update_progress, in the order
\* of its two call sites
UpdateMessages == << "Installing GUI applications...", "Installing CLI tools..." >>

(***************************************************************************)
(* The summary of main().                                                  *)
(***************************************************************************)
\* the characters the summary keeps of an error text
SummaryErrorLength == 50

\* mutant: the text is not cut
Prefix_Whole(text, n) == text

\* text[:n]
Prefix(text, n) == SubSeq(text, 1, IF Len(text) < n THEN Len(text) ELSE n)

\* lines 981-999: the lines the summary prints
summary(mode, out, step_list, successful, failed) ==
    LET results == Decimal(Len(successful)) \o << "/" >> \o Decimal(Len(step_list))
    IN  IF mode # "minimal"
          THEN LET a == ConsoleChars(ConsoleLine(out, "SETUP COMPLETE", "", ""),
                                   "Results", "", results)
                   b == IF successful # << >>
                          THEN ConsoleEach(ConsoleLine(a, "[SUCCESS] Completed", "", ""),
                                         "succeeded", successful)
                          ELSE a
               IN  IF failed # << >>
                     THEN [ b EXCEPT !.console =
                              Append(@, [ via |-> "print", what |-> "[FAILED]",
                                          step |-> "", text |-> "", chars |-> << >> ])
                              \o [ k \in 1..Len(failed) |->
                                     [ via |-> "print", what |-> "failed",
                                       step |-> failed[k][1], text |-> "",
                                       chars |-> Prefix(Chars(failed[k][2]),
                                                        SummaryErrorLength)
                                                 \o << ".", ".", "." >> ] ] ]
                     ELSE b
          ELSE ConsoleChars(out, "Completed", "", results)

(***************************************************************************)
(* Inputs: the command line and the configuration files the runs read.     *)
(***************************************************************************)
OptStr(values) == { {} } \cup { {v} : v \in values }

UserSections ==
    { {},
      {[ name |-> {"Ada"}, email |-> {"ada@example.com"} ]},
      {[ name |-> {}, email |-> {"ada@example.com"} ]},
      {[ name |-> {""}, email |-> {"ada@example.com"} ]},
      {[ name |-> {"Ada"}, email |-> {} ]},
      {[ name |-> {"Ada"}, email |-> {""} ]} }

NotificationSections ==
    { {},
      {[ enabled |-> {FALSE}, on_error |-> {}, on_complete |-> {} ]},
      {[ enabled |-> {}, on_error |-> {FALSE}, on_complete |-> {} ]},
      {[ enabled |-> {TRUE}, on_error |-> {}, on_complete |-> {FALSE} ]} }

PackageSections == { {} } \cup { {p} : p \in PackagesDicts }

FullUser == {[ name |-> {"Ada"}, email |-> {"ada@example.com"} ]}

\* every toggle of a simple step switched off, no packages section
AllOff ==
    [ EmptyDict EXCEPT !.macos_configure = {FALSE}, !.ssh_generate_key = {FALSE},
                       !.git_configure = {FALSE}, !.rust_install = {FALSE},
                       !.node_install = {FALSE}, !.omz_install = {FALSE},
                       !.starship_install = {FALSE} ]

\* output.log_level as configured: names of levels in either case, and a name
\* that is no level
LogLevels == { "DEBUG", "warning", "ERROR", "CRITICAL", "TRACE" }

\* a valid configuration with every toggle of a simple step switched off and
\* the notifications disabled
Quiet ==
    [ AllOff EXCEPT !.user = FullUser,
                    !.notifications = {[ enabled |-> {FALSE}, on_error |-> {},
                                         on_complete |-> {} ]} ]

\* the values of output.mode in a configuration file: the three modes and a
\* name that is none of them
ConfigModes == OutputMode \cup { "quiet" }

\* the configuration files of the runs, at most MaxSteps steps resulting: one
\* family varies the steps, one the notification preferences, one the user
\* section, one the log level, one the output mode
RunConfigFiles ==
    { c \in { [ Quiet EXCEPT !.git_configure = g, !.rust_install = r, !.packages = p ] :
                g \in { {}, {FALSE} }, r \in { {}, {FALSE} },
                p \in { {}, {[ homebrew |-> {[install |-> {FALSE}]}, gui_apps |-> FALSE ]},
                        {[ homebrew |-> {}, gui_apps |-> TRUE ]} } }
              \cup { [ AllOff EXCEPT !.user = FullUser, !.notifications = n,
                                     !.git_configure = {} ] :
                       n \in NotificationSections }
              \cup { [ AllOff EXCEPT !.user = u ] : u \in UserSections }
              \cup { [ Quiet EXCEPT !.log_level = {l}, !.packages = p ] :
                       l \in LogLevels,
                       p \in { {}, {[ homebrew |-> {}, gui_apps |-> TRUE ]} } }
              \cup { [ Quiet EXCEPT !.output_mode = {mode} ] : mode \in ConfigModes } :
        Len(BuildSteps(c)) <= MaxSteps }

\* argparse: --mode defaults to 'normal' when the flag is not given
Args ==
    { [ mode |-> Get(m, "normal"), no_notifications |-> n, dry_run |-> d ] :
        m \in OptStr(OutputMode), n \in BOOLEAN, d \in BOOLEAN }

ConfigPaths == [ exists : BOOLEAN, suffix : { ".json", ".yaml" } ]

LogFiles == { "macos_setup_logs", "setup.log", "setup_detail.log" }

(***************************************************************************)
(* configure_shell_paths and the files it looks at.                        *)
(*                                                                         *)
(* A path is a pair << directory, name >>.  The text of an rc file is the  *)
(* sequence of its blocks; `marker in shell_content` is decided by the     *)
(* markers each block's text contains.                                     *)
(***************************************************************************)
\* most runs of configure_shell_paths in one behaviour
MaxRuns == 3

Machines == { "arm64", "x86_64" }

Home == "~"

ZshRc == << Home, ".zshrc" >>
BashProfile == << Home, ".bash_profile" >>
RcFiles == { ZshRc, BashProfile }

\* lines 687-690, 706-709, 723-726
BrewPrefix(m) == IF m = "arm64" THEN "/opt/homebrew" ELSE "/usr/local"

BrewPath(m) == << BrewPrefix(m), "bin/brew" >>
CargoBin == << Home, ".cargo/bin" >>
NvmDir == << Home, ".nvm" >>
FzfOnPath == << "PATH", "fzf" >>
FzfInstall(m) == << BrewPrefix(m), "opt/fzf/install" >>

\* line 720: the full path of the rc file decides between .fzf.zsh and .fzf.bash
FzfShell(shell_rc) ==
    IF shell_rc = ZshRc THEN << Home, ".fzf.zsh" >> ELSE << Home, ".fzf.bash" >>

\* what the environment installs and removes between runs
ToolPaths(m) == { BrewPath(m), CargoBin, NvmDir, FzfOnPath, FzfInstall(m) }

\* the blocks configure_shell_paths appends
HomebrewBlock == "# Homebrew"
CargoBlock == "# Rust/Cargo"
NvmBlock == "# NVM (Node Version Manager)"
FzfBlock == "# FZF"

Markers == { "brew shellenv", ".cargo/bin", "NVM_DIR", "fzf" }

\* the markers that occur in the text of a block: the four blocks of the
\* script, and lines a user or an installer wrote
MarkersIn(block) ==
    CASE block = HomebrewBlock -> { "brew shellenv" }
      [] block = CargoBlock -> { ".cargo/bin" }
      [] block = NvmBlock -> { "NVM_DIR" }
      [] block = FzfBlock -> { "fzf" }
      [] block = "eval \"$(brew shellenv)\"" -> { "brew shellenv" }
      [] block = "plugins=(git fzf)" -> { "fzf" }
      [] OTHER -> {}

\* marker in shell_content
Contains(shell_content, marker) ==
    \E k \in DOMAIN shell_content : marker \in MarkersIn(shell_content[k])

\* the rc files as the runs find them
InitialContents ==
    { << >>,
      << "export EDITOR=vim" >>,
      << "eval \"$(brew shellenv)\"" >>,
      << "plugins=(git fzf)" >> }

\* lines 673-679
SelectRc(fs) ==
    IF ZshRc \in fs THEN { ZshRc }
    ELSE IF BashProfile \in fs THEN { BashProfile }
    ELSE {}

\* lines 685-694
HomebrewAddition(m, fs, shell_content) ==
    When(~Contains(shell_content, "brew shellenv") /\ BrewPath(m) \in fs,
         HomebrewBlock)

\* lines 696-700
CargoAddition(fs, shell_content) ==
    When(CargoBin \in fs /\ ~Contains(shell_content, ".cargo/bin"), CargoBlock)

\* lines 702-716
NvmAddition(fs, shell_content) ==
    When(NvmDir \in fs /\ ~Contains(shell_content, "NVM_DIR"), NvmBlock)

\* lines 718-730: whether the fzf install script is run
FzfInstallRuns(m, fs, shell_rc, shell_content) ==
    /\ run_command([ kind |-> "list", words |-> << "which", "fzf" >> ], FALSE, FALSE,
                   FALSE, FALSE, DefaultTimeout,
                   Silent(IF FzfOnPath \in fs THEN "exit0" ELSE "nonzero")).returncode = 0
    /\ FzfShell(shell_rc) \notin fs
    /\ ~Contains(shell_content, "fzf")
    /\ FzfInstall(m) \in fs

\* the files after the fzf part: the install script creates the fzf shell file
FilesAfterFzf(m, fs, shell_rc, shell_content, works) ==
    IF FzfInstallRuns(m, fs, shell_rc, shell_content) /\ works
      THEN fs \cup { FzfShell(shell_rc) }
      ELSE fs

\* lines 731-732
FzfAddition(m, fs, shell_rc, shell_content, works) ==
    When(/\ FzfInstallRuns(m, fs, shell_rc, shell_content)
         /\ FzfShell(shell_rc) \in FilesAfterFzf(m, fs, shell_rc, shell_content, works),
         FzfBlock)

\* mutant: the Cargo block is added without looking for its marker
configure_shell_paths_NoCargoMarker(m, fs, content, works) ==
    IF SelectRc(fs) = {} THEN [ files |-> fs, content |-> content, additions |-> << >> ]
    ELSE
        LET shell_rc == CHOOSE f \in SelectRc(fs) : TRUE
            shell_content == content[shell_rc]
            adds ==    HomebrewAddition(m, fs, shell_content)
                    \o When(CargoBin \in fs, CargoBlock)
                    \o NvmAddition(fs, shell_content)
                    \o FzfAddition(m, fs, shell_rc, shell_content, works)
        IN  [ files |-> FilesAfterFzf(m, fs, shell_rc, shell_content, works),
              content |-> [ content EXCEPT ![shell_rc] = shell_content \o adds ],
              additions |-> adds ]

\* configure_shell_paths: the files, the rc texts and `additions` after a run
configure_shell_paths(m, fs, content, works) ==
    IF SelectRc(fs) = {} THEN [ files |-> fs, content |-> content, additions |-> << >> ]
    ELSE
        LET shell_rc == CHOOSE f \in SelectRc(fs) : TRUE
            shell_content == content[shell_rc]
            adds ==    HomebrewAddition(m, fs, shell_content)
                    \o CargoAddition(fs, shell_content)
                    \o NvmAddition(fs, shell_content)
                    \o FzfAddition(m, fs, shell_rc, shell_content, works)
        IN  [ files |-> FilesAfterFzf(m, fs, shell_rc, shell_content, works),
              content |-> [ content EXCEPT ![shell_rc] = shell_content \o adds ],
              additions |-> adds ]

main_vars == << pc, config_file, args, config_data, config, log_files, steps,
                listings, started, i, invoked, command_failed, pending_error,
                successful_steps, failed_steps, progress, main_outcome, exit_code,
                logger, log_file, console, updates >>

\* what configure_shell_paths and the changes of its environment leave alone
beside_paths == << main_vars, time_vars, command_vars, ssh_vars >>

\* one run of configure_shell_paths
ConfigureShellPaths ==
    /\ runs < MaxRuns
    /\ LET r == configure_shell_paths(machine, files, rc_content, fzf_install_works)
       IN  /\ files' = r.files
           /\ rc_content' = r.content
           /\ additions' = r.additions
    /\ runs' = runs + 1
    /\ runs_in_a_row' = IF runs_in_a_row = 0 THEN 1 ELSE 2
    /\ UNCHANGED << beside_paths, machine, fzf_install_works >>

\* between two runs a tool is installed
InstallTool ==
    /\ \E path \in ToolPaths(machine) \ files : files' = files \cup { path }
    /\ runs_in_a_row' = 0
    /\ UNCHANGED << beside_paths, machine, rc_content, fzf_install_works, additions, runs >>

\* between two runs a tool is removed
RemoveTool ==
    /\ \E path \in ToolPaths(machine) \cap files : files' = files \ { path }
    /\ runs_in_a_row' = 0
    /\ UNCHANGED << beside_paths, machine, rc_content, fzf_install_works, additions, runs >>

\* between two runs the fzf install script starts or stops working
FzfInstallChanges ==
    /\ fzf_install_works' = ~fzf_install_works
    /\ runs_in_a_row' = 0
    /\ UNCHANGED << beside_paths, machine, files, rc_content, additions, runs >>

\* the shell rc files are left alone while main() is followed
PathsIdle ==
    /\ machine = "arm64"
    /\ files = {}
    /\ rc_content = [ f \in RcFiles |-> << >> ]
    /\ fzf_install_works = TRUE
    /\ additions = << >>
    /\ runs = 0
    /\ runs_in_a_row = 0

\* main() before its first statement
MainStart(paths, arguments) ==
    /\ pc = "parse_args"
    /\ config_file \in paths
    /\ args \in arguments
    /\ config_data = EmptyDict
    /\ config = DefaultConfig
    /\ log_files = {}
    /\ steps = << >>
    /\ listings = << >>
    /\ started = {}
    /\ i = 0
    /\ invoked = << >>
    /\ command_failed = {}
    /\ pending_error = ""
    /\ successful_steps = << >>
    /\ failed_steps = << >>
    /\ progress = NewProgress
    /\ main_outcome = "running"
    /\ exit_code = -1
    /\ logger = NoLogger
    /\ log_file = << >>
    /\ console = << >>
    /\ updates = 0

Init == MainStart(ConfigPaths, Args) /\ PathsIdle /\ TimeIdle /\ CommandIdle /\ SshIdle

\* main() is not run
MainIdle ==
    MainStart({[ exists |-> TRUE, suffix |-> ".json" ]},
              {[ mode |-> "normal", no_notifications |-> FALSE, dry_run |-> FALSE ]})

\* the runs of configure_shell_paths: some rc files exist, with some text
InitPaths ==
    /\ MainIdle
    /\ TimeIdle
    /\ CommandIdle
    /\ SshIdle
    /\ machine \in Machines
    /\ files \in SUBSET RcFiles
    /\ \E zsh \in InitialContents, bash \in { << >>, << "plugins=(git fzf)" >> } :
          rc_content = [ f \in RcFiles |-> IF f = ZshRc THEN zsh ELSE bash ]
    /\ \A f \in RcFiles \ files : rc_content[f] = << >>
    /\ fzf_install_works \in BOOLEAN
    /\ additions = << >>
    /\ runs = 0
    /\ runs_in_a_row = 0

NextPaths ==
    \/ ConfigureShellPaths
    \/ InstallTool
    \/ RemoveTool
    \/ FzfInstallChanges

SpecPaths == InitPaths /\ [][NextPaths]_vars

(***************************************************************************)
(* main(), block by block.                                                 *)
(***************************************************************************)
loop_vars == << i, invoked, command_failed, pending_error,
                successful_steps, failed_steps, progress, updates >>

\* the logger, the log file and the console
output_vars == << logger, log_file, console >>

\* the log file and the console as they are
Out == [ log_file |-> log_file, console |-> console ]

\* the log file and the console become those of out
Write(out) ==
    /\ log_file' = out.log_file
    /\ console' = out.console

\* Notifier.send was called and had outcome r, or was not called
Notified(r) ==
    /\ started' = r.started
    /\ logger' = [ logger EXCEPT !.root_handler = @ \/ r.basic_config ]

\* lines 853-861: parse_args, then the check that the config file exists
ParseArgs ==
    /\ pc = "parse_args"
    /\ IF ~config_file.exists
         THEN Leave("SystemExit")
         ELSE /\ pc' = "load_config"
              /\ UNCHANGED << main_outcome, exit_code >>
    /\ UNCHANGED << beside_main, output_vars, config_file, args, config_data, config,
                    log_files, steps, listings, started, loop_vars >>

\* lines 863-864: config_data = load_config(args.config)
LoadConfig(contents) ==
    /\ pc = "load_config"
    /\ \E content \in contents :
         LET r == load_config(config_file, content)
         IN  IF r.raised
               THEN /\ Leave("Exception")
                    /\ UNCHANGED config_data
               ELSE /\ pc' = "load_user_config"
                    /\ config_data' = r.value
                    /\ UNCHANGED << main_outcome, exit_code >>
    /\ UNCHANGED << beside_main, output_vars, config_file, args, config, log_files, steps,
                    listings, started, loop_vars >>

\* lines 866-867: config = load_user_config(config_data)
LoadUserConfig ==
    /\ pc = "load_user_config"
    /\ LET r == load_user_config(config_data)
       IN  IF r.exits
             THEN /\ Leave("SystemExit")
                  /\ UNCHANGED config
           ELSE IF r.raised
             THEN /\ Leave("Exception")
                  /\ UNCHANGED config
             ELSE /\ pc' = "setup_logging"
                  /\ config' = r.config
                  /\ UNCHANGED << main_outcome, exit_code >>
    /\ UNCHANGED << beside_main, output_vars, config_file, args, config_data, log_files,
                    steps, listings, started, loop_vars >>

\* mutant: the command line does not override the output mode of the file
SetupLogging_KeepsFileMode ==
    /\ pc = "setup_logging"
    /\ config' = [ config EXCEPT
                     !.notifications_enabled =
                         IF args.no_notifications THEN FALSE ELSE @ ]
    /\ LET log_level == Get(config_data.log_level, "INFO")
       IN  IF IsLevel(log_level)
             THEN /\ logger' = setup_logging(config'.output_mode, log_level)
                  /\ log_files' = LogFiles
                  /\ Write(LogStartup(logger', Out))
                  /\ pc' = "define_steps"
                  /\ UNCHANGED << main_outcome, exit_code >>
             ELSE /\ log_files' = { "macos_setup_logs" }
                  /\ Leave("Exception")
                  /\ UNCHANGED output_vars
    /\ UNCHANGED << beside_main, config_file, args, config_data, steps, listings, started,
                    loop_vars >>

\* lines 869-893: the command line overrides the Config (args.mode is never
\* empty: argparse gives it the default), then setup_logging creates the log
\* directory, configures the loggers and opens the two log files, and the
\* startup records are logged; a log_level that names no level ends main()
\* with the AttributeError, the directory already made
SetupLogging ==
    /\ pc = "setup_logging"
    /\ config' = [ config EXCEPT
                     !.output_mode = IF args.mode # "" THEN args.mode ELSE @,
                     !.notifications_enabled =
                         IF args.no_notifications THEN FALSE ELSE @ ]
    /\ LET log_level == Get(config_data.log_level, "INFO")
       IN  IF IsLevel(log_level)
             THEN /\ logger' = setup_logging(config'.output_mode, log_level)
                  /\ log_files' = LogFiles
                  /\ Write(LogStartup(logger', Out))
                  /\ pc' = "define_steps"
                  /\ UNCHANGED << main_outcome, exit_code >>
             ELSE /\ log_files' = { "macos_setup_logs" }
                  /\ Leave("Exception")
                  /\ UNCHANGED output_vars
    /\ UNCHANGED << beside_main, config_file, args, config_data, steps, listings, started,
                    loop_vars >>

\* lines 895-926: the step list
DefineSteps ==
    /\ pc = "define_steps"
    /\ steps' = BuildSteps(config_data)
    /\ pc' = "notify_start"
    /\ UNCHANGED << beside_main, output_vars, config_file, args, config_data, config,
                    log_files, listings, started, loop_vars, main_outcome, exit_code >>

\* lines 928-930: the start notification
NotifyStart ==
    /\ pc = "notify_start"
    /\ \E r \in IF config.notifications_enabled
                  THEN { Notifier_send(outcome) : outcome \in NotifierOutcomes }
                  ELSE { NotSent } :
         /\ Notified(r)
         /\ IF r.raised
              THEN Leave("Exception")
              ELSE /\ pc' = "show_plan"
                   /\ UNCHANGED << main_outcome, exit_code >>
    /\ UNCHANGED << beside_main, log_file, console, config_file, args, config_data,
                    config, log_files, steps, listings, loop_vars >>

\* lines 932-950: the banner with the steps to execute, unless minimal
ShowPlan ==
    /\ pc = "show_plan"
    /\ listings' = IF config.output_mode # "minimal"
                     THEN Append(listings, steps) ELSE listings
    /\ IF config.output_mode # "minimal"
         THEN LET a == ConsoleLine(Out, "Starting macOS Development Environment Setup", "", "")
                  b == ConsoleEach(ConsoleLine(a, "Steps to execute:", "", ""), "plan", steps)
              IN  Write(IF ~args.dry_run
                          THEN ConsoleLine(b, "Starting installation...", "", "") ELSE b)
         ELSE UNCHANGED << log_file, console >>
    /\ pc' = "dry_run"
    /\ UNCHANGED << beside_main, logger, config_file, args, config_data, config,
                    log_files, steps, started, loop_vars, main_outcome, exit_code >>

\* lines 952-962: a dry run lists the steps and returns; else the loop begins
DryRun ==
    /\ pc = "dry_run"
    /\ IF args.dry_run
         THEN /\ listings' = Append(listings, steps)
              /\ Write(ConsoleLine(ConsoleEach(ConsoleLine(Out, "[DRY RUN] Would execute", "", ""),
                                       "dry run", steps),
                             "[DRY RUN] No changes were made.", "", ""))
              /\ Leave("return")
         ELSE /\ pc' = "loop"
              /\ UNCHANGED << listings, log_file, console, main_outcome, exit_code >>
    /\ UNCHANGED << beside_main, logger, config_file, args, config_data, config,
                    log_files, steps, started, loop_vars >>

\* lines 964-968: the next iteration: progress.start_step, then func() is called
StartStep ==
    /\ pc = "loop"
    /\ i < Len(steps)
    /\ i' = i + 1
    /\ progress' = start_step(progress, steps[i + 1], i + 1, Len(steps))
    /\ Write(start_step_output(logger, config.output_mode, Out, steps[i + 1]))
    /\ invoked' = Append(invoked, steps[i + 1])
    /\ updates' = 0
    /\ pc' = "in_step"
    /\ UNCHANGED << beside_main, logger, config_file, args, config_data, config,
                    log_files, steps, listings, started, command_failed, pending_error,
                    successful_steps, failed_steps, main_outcome, exit_code >>

\* inside func(): one run_command call of the step function (a step function
\* makes any number of them); of the detail log, command_failed keeps the
\* steps that have an error entry
RunCommand ==
    /\ pc = "in_step"
    /\ \E check \in ChecksOf(steps[i]), outcome \in CmdOutcomes :
         LET r == run_command([ kind |-> "list", words |-> << "command" >> ], FALSE,
                              check, FALSE, FALSE, DefaultTimeout, Silent(outcome))
         IN  /\ started' = IF outcome = "oserror" THEN started
                           ELSE started \cup { "command" }
             /\ command_failed' = IF r.logged_error
                                    THEN command_failed \cup { steps[i] }
                                    ELSE command_failed
             /\ IF r.raised
                  THEN /\ pc' = "except"
                       /\ pending_error' = CommandNotFound
                  ELSE UNCHANGED << pc, pending_error >>
    /\ UNCHANGED << beside_main, output_vars, config_file, args, config_data, config,
                    log_files, steps, listings, i, invoked, successful_steps,
                    failed_steps, progress, updates, main_outcome, exit_code >>

\* inside install_brew_packages: progress.update_progress at the next of its
\* call sites, when the packages section has gui_apps or cli_tools (a section
\* without entries skips its call)
UpdateProgress ==
    /\ pc = "in_step"
    /\ steps[i] = "Install Brew Packages"
    /\ PackagesOf(config_data).gui_apps
    /\ \E site \in (updates + 1)..Len(UpdateMessages) :
         /\ updates' = site
         /\ Write(update_progress(logger, config.output_mode, Out, UpdateMessages[site]))
    /\ UNCHANGED << beside_main, logger, config_file, args, config_data, config,
                    log_files, steps, listings, started, i, invoked, command_failed,
                    pending_error, successful_steps, failed_steps, progress,
                    pc, main_outcome, exit_code >>

\* inside func(): the step function's own code raises an Exception
StepFault ==
    /\ pc = "in_step"
    /\ pc' = "except"
    /\ pending_error' = PermissionDenied
    /\ UNCHANGED << beside_main, output_vars, config_file, args, config_data, config,
                    log_files, steps, listings, started, i, invoked, command_failed,
                    successful_steps, failed_steps, progress, updates, main_outcome,
                    exit_code >>

\* lines 968-970: func() returned
StepReturn ==
    /\ pc = "in_step"
    /\ successful_steps' = Append(successful_steps, steps[i])
    /\ progress' = complete_step(progress)
    /\ Write(complete_step_output(logger, config.output_mode, Out, progress.current_step))
    /\ pc' = "loop"
    /\ UNCHANGED << beside_main, logger, config_file, args, config_data, config,
                    log_files, steps, listings, started, i, invoked, command_failed,
                    pending_error, failed_steps, updates, main_outcome, exit_code >>

\* line 972: logger.error(f"Step failed: {name} - {e}")
LogStepFailed ==
    Write(logger_call(logger, Out, "ERROR", "Step failed", steps[i], pending_error))

\* mutant: the except clause swallows the failure without recording it
StepExcept_Unrecorded ==
    /\ pc = "except"
    /\ LogStepFailed
    /\ pending_error' = ""
    /\ pc' = "loop"
    /\ UNCHANGED << beside_main, logger, config_file, args, config_data, config,
                    log_files, steps, listings, started, i, invoked, command_failed,
                    successful_steps, failed_steps, progress, updates, main_outcome,
                    exit_code >>

\* mutant: the except clause records the failure and breaks out of the loop
StepExcept_Break ==
    /\ pc = "except"
    /\ LogStepFailed
    /\ failed_steps' = Append(failed_steps, << steps[i], pending_error >>)
    /\ pending_error' = ""
    /\ pc' = "summary"
    /\ UNCHANGED << beside_main, logger, config_file, args, config_data, config,
                    log_files, steps, listings, started, i, invoked, command_failed,
                    successful_steps, progress, updates, main_outcome, exit_code >>

\* mutant: the except clause records the failure and runs the step again
StepExcept_Retry ==
    /\ pc = "except"
    /\ LogStepFailed
    /\ failed_steps' = Append(failed_steps, << steps[i], pending_error >>)
    /\ pending_error' = ""
    /\ i' = i - 1
    /\ pc' = "loop"
    /\ UNCHANGED << beside_main, logger, config_file, args, config_data, config,
                    log_files, steps, listings, started, invoked, command_failed,
                    successful_steps, progress, updates, main_outcome, exit_code >>

\* lines 971-976: except Exception as e
StepExcept ==
    /\ pc = "except"
    /\ LogStepFailed
    /\ failed_steps' = Append(failed_steps, << steps[i], pending_error >>)
    /\ pending_error' = ""
    /\ \E r \in IF config.notifications_enabled /\ NotifyOn("on_error")
                  THEN { Notifier_send(outcome) : outcome \in NotifierOutcomes }
                  ELSE { NotSent } :
         /\ Notified(r)
         /\ IF r.raised
              THEN Leave("Exception")
              ELSE /\ pc' = "loop"
                   /\ UNCHANGED << main_outcome, exit_code >>
    /\ UNCHANGED << beside_main, config_file, args, config_data, config, log_files,
                    steps, listings, i, invoked, command_failed, successful_steps,
                    progress, updates >>

\* the for loop is exhausted
LoopDone ==
    /\ pc = "loop"
    /\ i = Len(steps)
    /\ pc' = "summary"
    /\ UNCHANGED << beside_main, output_vars, config_file, args, config_data, config,
                    log_files, steps, listings, started, loop_vars, main_outcome,
                    exit_code >>

\* lines 978-999: the summary
Summary ==
    /\ pc = "summary"
    /\ Write(summary(config.output_mode, Out, steps, successful_steps, failed_steps))
    /\ pc' = "notify_complete"
    /\ UNCHANGED << beside_main, logger, config_file, args, config_data, config,
                    log_files, steps, listings, started, loop_vars, main_outcome,
                    exit_code >>

\* lines 1001-1010: the completion notification and the last log record, then
\* main() returns
NotifyComplete ==
    /\ pc = "notify_complete"
    /\ \E r \in IF config.notifications_enabled /\ NotifyOn("on_complete")
                  THEN { Notifier_send(outcome) : outcome \in NotifierOutcomes }
                  ELSE { NotSent } :
         /\ Notified(r)
         /\ IF r.raised
              THEN /\ Leave("Exception")
                   /\ UNCHANGED << log_file, console >>
              ELSE /\ Write(logger_call(logger', Out, "INFO", "Setup script completed",
                                        "", ""))
                   /\ Leave("return")
    /\ UNCHANGED << beside_main, config_file, args, config_data, config, log_files,
                    steps, listings, loop_vars >>

\* the user's interrupt: KeyboardInterrupt is raised wherever main() is; no
\* except clause of main() or of the step functions catches it (it is no
\* Exception), so it reaches the process boundary
Interrupt ==
    /\ pc # "exited"
    /\ Leave("KeyboardInterrupt")
    /\ UNCHANGED << beside_main, output_vars, config_file, args, config_data, config,
                    log_files, steps, listings, started, loop_vars >>

Next ==
    \/ ParseArgs
    \/ LoadConfig(RunConfigFiles)
    \/ LoadUserConfig
    \/ SetupLogging
    \/ DefineSteps
    \/ NotifyStart
    \/ ShowPlan
    \/ DryRun
    \/ StartStep
    \/ RunCommand
    \/ UpdateProgress
    \/ StepFault
    \/ StepReturn
    \/ StepExcept
    \/ LoopDone
    \/ Summary
    \/ NotifyComplete
    \/ Interrupt

Spec == Init /\ [][Next]_vars

(***************************************************************************)
(* The step registry alone: main() up to the step list, on every           *)
(* combination of the toggles.                                             *)
(***************************************************************************)
AllConfigFiles ==
    [ user : { {}, FullUser }, output_mode : { {} }, log_level : { {} },
      notifications : { {} },
      macos_configure : OptBool, ssh_generate_key : OptBool,
      git_configure : OptBool, rust_install : OptBool, node_install : OptBool,
      omz_install : OptBool, starship_install : OptBool,
      packages : PackageSections ]

NextBuild ==
    \/ ParseArgs
    \/ LoadConfig(AllConfigFiles)
    \/ LoadUserConfig
    \/ SetupLogging
    \/ DefineSteps

SpecBuild == Init /\ [][NextBuild]_vars

(***************************************************************************)
(* The TimeEstimator alone: an estimator is constructed from some          *)
(* configuration and its two methods are called on arguments of any kind.  *)
(***************************************************************************)
\* longest elapsed time, in seconds
MaxElapsed == 100

\* largest step number and step count handed to get_time_remaining
MaxTotal == 4

\* longest task list handed to estimate_total_time
MaxTasks == 2

\* the 'time_estimates' section of the configuration: absent, one estimate
\* given, every estimate given
TimeEstimateSections ==
    { {},
      {[ rust_install |-> 7 ]},
      {[ gui_app |-> 1, cli_tool |-> 2, rust_install |-> 3, node_install |-> 4,
         oh_my_zsh |-> 6, configuration |-> 8 ]} }

TaskNames == { Chars(StepOrder[k]) : k \in DOMAIN StepOrder } \cup OtherTaskNames

TaskLists == UNION { [ 1..n -> TaskNames ] : n \in 0..MaxTasks }

InitTime ==
    /\ MainIdle
    /\ PathsIdle
    /\ \E time_estimates \in TimeEstimateSections :
          estimates = TimeEstimator_init(time_estimates)
    /\ time_call = [ fn |-> "none" ]
    /\ time_returned = << >>
    /\ CommandIdle
    /\ SshIdle

\* time_estimator.estimate_total_time(tasks); the methods do not change the
\* estimator, so one call is followed on each estimator
EstimateTotalTime ==
    /\ time_call.fn = "none"
    /\ \E tasks \in TaskLists :
         /\ time_call' = [ fn |-> "estimate_total_time", tasks |-> tasks ]
         /\ time_returned' = estimate_total_time(estimates, tasks)
    /\ UNCHANGED << main_vars, paths_vars, command_vars, ssh_vars, estimates >>

\* time_estimator.get_time_remaining(current_step, total_steps), some time
\* after the estimator was constructed
GetTimeRemaining ==
    /\ time_call.fn = "none"
    /\ \E current_step \in -1..MaxTotal, total_steps \in 0..MaxTotal,
          elapsed \in 0..(MaxElapsed * TicksPerSecond) :
         /\ time_call' = [ fn |-> "get_time_remaining",
                           current_step |-> current_step,
                           total_steps |-> total_steps, elapsed |-> elapsed ]
         /\ time_returned' = get_time_remaining(current_step, total_steps, elapsed)
    /\ UNCHANGED << main_vars, paths_vars, command_vars, ssh_vars, estimates >>

NextTime ==
    \/ EstimateTotalTime
    \/ GetTimeRemaining

SpecTime == InitTime /\ [][NextTime]_vars

(***************************************************************************)
(* run_command alone: calls with every combination of its arguments, on    *)
(* processes of every kind, and the detail log they leave.                 *)
(***************************************************************************)
\* calls of run_command that are followed
MaxCalls == 1

\* the `Executing:` entries of a detail log, one per call
Executions(log) == { k \in DOMAIN log : log[k].message[1] = "Executing: " }

InitCommand ==
    /\ MainIdle
    /\ PathsIdle
    /\ TimeIdle
    /\ CommandIdle
    /\ SshIdle

\* run_command(cmd, shell=..., check=..., show_output=..., verbose=..., timeout=...)
RunCommandCall ==
    /\ Cardinality(Executions(detail_log)) < MaxCalls
    /\ \E cmd \in Commands, shell \in BOOLEAN, check \in BOOLEAN,
          show_output \in BOOLEAN, verbose \in BOOLEAN, timeout \in Timeouts,
          process \in Processes :
         LET r == run_command(cmd, shell, check, show_output, verbose, timeout, process)
         IN  /\ cmd_call' = [ fn |-> "run_command", cmd |-> cmd, shell |-> shell,
                              check |-> check, show_output |-> show_output,
                              verbose |-> verbose, timeout |-> timeout,
                              process |-> process ]
             /\ cmd_returned' = [ raised |-> r.raised, returncode |-> r.returncode,
                                  stdout |-> r.stdout, stderr |-> r.stderr ]
             /\ detail_log' = detail_log \o r.detail
    /\ UNCHANGED << main_vars, paths_vars, time_vars, ssh_vars >>

NextCommand == RunCommandCall

SpecCommand == InitCommand /\ [][NextCommand]_vars

(***************************************************************************)
(* generate_ssh_key alone: runs one after the other on the same ~/.ssh.    *)
(***************************************************************************)
\* runs of generate_ssh_key that are followed
MaxKeyRuns == 2

\* the ssh sections of the configuration
SshSections ==
    [ generate_key : { {}, {FALSE} }, add_to_keychain : OptBool,
      key_type : { {} }, key_name : { {}, { "work" } } ]

\* what becomes of ssh-keygen and of ssh-add: a timeout is returned by
\* run_command like the non-zero exit, and ssh-add changes nothing in ~/.ssh
KeygenOutcomes == { "exit0", "nonzero", "oserror" }

AddOutcomes == { "exit0", "oserror" }

\* what ~/.ssh/config holds before the first run: nothing, the block of
\* another host, a github.com block in another spelling, the marker inside
\* a comment, the marker as the beginning of a longer host name, a
\* 'Host github.com' block of the user
InitialConfigs ==
    { << >>,
      << "Host", " ", "gitlab.com", "\n", "    User git", "\n" >>,
      << "host", " ", "github.com", "\n", "    User git", "\n" >>,
      << "# ", "Host", " ", "github.com", "\n" >>,
      << "Host", " ", "github.com", ".internal", "\n" >>,
      << "Host", " ", "gitlab.com", "\n", "Host", " ", "github.com", "\n",
         "    IdentityFile ~/.ssh/id_rsa", "\n" >> }

InitSsh ==
    /\ MainIdle
    /\ PathsIdle
    /\ TimeIdle
    /\ CommandIdle
    /\ \E keys \in SUBSET { KeyPath(s) : s \in SshSections } :
         \/ ssh_initial = [ config |-> {}, access |-> "rw", keys |-> keys ]
         \/ \E text \in InitialConfigs, access \in AccessModes :
              ssh_initial = [ config |-> { text }, access |-> access, keys |-> keys ]
    /\ ssh_dir = ssh_initial
    /\ ssh_call = [ fn |-> "none" ]
    /\ ssh_runs = 0

\* generate_ssh_key(config)
GenerateSshKey ==
    /\ ssh_runs < MaxKeyRuns
    /\ \E ssh_config \in SshSections, keygen \in KeygenOutcomes, add \in AddOutcomes :
         LET r == generate_ssh_key(ssh_config, ssh_dir, keygen, add)
         IN  /\ ssh_dir' = r.dir
             /\ ssh_call' = [ fn |-> "generate_ssh_key", ssh_config |-> ssh_config,
                              keygen |-> keygen, before |-> ssh_dir,
                              raised |-> r.raised ]
    /\ ssh_runs' = ssh_runs + 1
    /\ UNCHANGED << main_vars, paths_vars, time_vars, command_vars, ssh_initial >>

NextSsh == GenerateSshKey

SpecSsh == InitSsh /\ [][NextSsh]_vars

(***************************************************************************)
(* Vocabulary of the properties.                                           *)
(***************************************************************************)
Range(s) == { s[k] : k \in DOMAIN s }

Occurrences(x, s) == Cardinality({ k \in DOMAIN s : s[k] = x })

IndexIn(seq, x) == CHOOSE k \in DOMAIN seq : seq[k] = x

\* sub lists elements of seq, each at most once, in the order of seq
InOrder(sub, seq) ==
    /\ Range(sub) \subseteq Range(seq)
    /\ \A a, b \in DOMAIN sub : a < b => IndexIn(seq, sub[a]) < IndexIn(seq, sub[b])

FailedNames == [ k \in DOMAIN failed_steps |-> failed_steps[k][1] ]

\* the for loop of main() has run to its end
LoopFinished ==
    \/ pc \in { "summary", "notify_complete" }
    \/ pc = "exited" /\ main_outcome = "return" /\ ~args.dry_run

\* C1: when the loop finishes, successful_steps and failed_steps together hold
\* exactly one entry per step of the list: every step name is in exactly one
\* of the two, once, and both keep the order of the step list.
C1_OneOutcomePerStep ==
    LoopFinished =>
        /\ Len(successful_steps) + Len(failed_steps) = Len(steps)
        /\ \A k \in DOMAIN steps :
              Occurrences(steps[k], successful_steps)
                + Occurrences(steps[k], FailedNames) = 1
        /\ InOrder(successful_steps, steps)
        /\ InOrder(FailedNames, steps)

C1_Witness ==
    /\ pc = "exited" /\ LoopFinished
    /\ Len(steps) = 3
    /\ Len(successful_steps) = 2
    /\ Len(failed_steps) = 1

\* C2: a step whose action raises is recorded as failed and every later step
\* is still started and gets its outcome: the loop never ends early.
C2_FailureDoesNotStopTheRun ==
    /\ pc = "loop" /\ i < Len(steps) => ENABLED StartStep
    /\ LoopFinished =>
          /\ invoked = steps
          /\ \A k \in DOMAIN steps :
                steps[k] \in Range(FailedNames) =>
                   \A j \in (k + 1)..Len(steps) :
                      Occurrences(steps[j], successful_steps)
                        + Occurrences(steps[j], FailedNames) = 1

C2_Witness ==
    /\ LoopFinished
    /\ Len(steps) = 3
    /\ successful_steps = << steps[1], steps[3] >>
    /\ FailedNames = << steps[2] >>

\* C3 (as claimed): a step one of whose commands exited non-zero under check,
\* or timed out, is recorded in failed_steps and not in successful_steps.
C3_CommandFailureFailsTheStep ==
    LoopFinished =>
        \A name \in command_failed :
            /\ name \in Range(FailedNames)
            /\ name \notin Range(successful_steps)

\* C4 (as claimed): a dry run starts no external process, calls no step
\* action, prints the whole step list and exits with 0.
C4_DryRunRunsNothing ==
    args.dry_run /\ config_data.user = FullUser =>
        /\ started = {}
        /\ invoked = << >>
        /\ pc = "exited" /\ main_outcome = "return" =>
              /\ exit_code = 0
              /\ listings # << >>
              /\ listings[Len(listings)] = steps

\* C5: with no 'user' section the process exits with 1 before setup_logging:
\* no log directory or file, no notification, no step list, no step.
C5_NoUserSectionExitsEarly ==
    config_data.user = {} =>
        /\ log_files = {}
        /\ started = {}
        /\ steps = << >>
        /\ invoked = << >>
        /\ pc = "exited" => exit_code = 1

C5_Witness ==
    /\ pc = "exited"
    /\ main_outcome = "SystemExit"
    /\ config_file.exists
    /\ config_data # EmptyDict
    /\ config_data.user = {}

\* C6 (as claimed): a 'user' section with a missing or empty name or email is
\* a fatal startup error: no step runs and the exit code is not 0.
C6_IdentityFieldsRequired ==
    LET user_data == Get(config_data.user, [ name |-> {"x"}, email |-> {"x"} ])
    IN  (\/ Get(user_data.name, "") = ""
         \/ Get(user_data.email, "") = "") =>
            /\ invoked = << >>
            /\ pc = "exited" => exit_code # 0

\* the step list has been built
StepsBuilt == pc = "notify_start"

\* C7: the step list is a subsequence of the fixed order, holds no step
\* twice and ends with the PATH step, for every configuration.
C7_FixedOrderPathsLast ==
    StepsBuilt =>
        /\ InOrder(steps, StepOrder)
        /\ \A k \in DOMAIN steps : Occurrences(steps[k], steps) = 1
        /\ steps # << >>
        /\ steps[Len(steps)] = "Configure Shell PATHs"

C7_Witness ==
    /\ StepsBuilt
    /\ steps = << "Generate SSH Key", "Install Rust", "Install Brew Packages",
                  "Configure Shell PATHs" >>

\* a configuration file holding nothing but the user section
UserOnly == [ EmptyDict EXCEPT !.user = FullUser ]

\* the packages.homebrew.install flag is absent, at whichever level
HomebrewFlagAbsent ==
    \/ config_data.packages = {}
    \/ \E p \in config_data.packages :
          \/ p.homebrew = {}
          \/ \E h \in p.homebrew : h.install = {}

\* the steps whose toggle is a flag, present whenever the flag is absent
FlagStepsDefaultOn ==
    /\ config_data.macos_configure = {} => "Configure macOS" \in Range(steps)
    /\ HomebrewFlagAbsent => "Install/Update Homebrew" \in Range(steps)
    /\ config_data.ssh_generate_key = {} => "Generate SSH Key" \in Range(steps)
    /\ config_data.git_configure = {} => "Configure Git" \in Range(steps)
    /\ config_data.rust_install = {} => "Install Rust" \in Range(steps)
    /\ config_data.node_install = {} => "Install Node.js" \in Range(steps)
    /\ config_data.omz_install = {} => "Install Oh My Zsh" \in Range(steps)
    /\ config_data.starship_install = {} => "Install Starship" \in Range(steps)

\* C8 (as claimed): every toggleable unit, the package batch included, gets
\* its step when its flag or section is absent; the user-only configuration
\* yields all ten steps.
C8_EveryToggleDefaultsOn ==
    StepsBuilt =>
        /\ FlagStepsDefaultOn
        /\ config_data.packages = {} => "Install Brew Packages" \in Range(steps)
        /\ config_data = UserOnly => steps = StepOrder

\* C8 (amended): every unit but the package batch gets its step when its flag
\* is absent; the package batch step is there exactly when the configuration
\* has a non-empty packages section; the user-only configuration yields the
\* nine other steps.
C8_TogglesDefaultOnButPackages ==
    StepsBuilt =>
        /\ FlagStepsDefaultOn
        /\ "Configure Shell PATHs" \in Range(steps)
        /\ "Install Brew Packages" \in Range(steps)
              <=> config_data.packages \notin { {}, {EmptyPackages} }
        /\ config_data = UserOnly =>
              steps = SelectSeq(StepOrder, LAMBDA n : n # "Install Brew Packages")

C8_Witness ==
    /\ StepsBuilt
    /\ config_data = UserOnly
    /\ Len(steps) = 9

\* C9: the exit code is 0 when the loop ran to its end without an interrupt,
\* whatever the number of failed steps; it is 1 for a missing config file, an
\* unsupported suffix, a missing user section, an interrupt anywhere, and any
\* other exception leaving main(); after an interrupt no step is started.
C9_ExitCodes ==
    /\ pc = "exited" => exit_code \in { 0, 1 }
    /\ pc # "exited" => exit_code = -1
    /\ pc = "exited" /\ main_outcome # "KeyboardInterrupt" /\ ~args.dry_run
         /\ steps # << >> /\ i = Len(steps)
         /\ Len(successful_steps) + Len(failed_steps) = Len(steps)
         => exit_code = 0
    /\ pc = "exited"
         /\ (\/ ~config_file.exists
             \/ config_file.suffix # ".json"
             \/ config_data.user = {})
         => exit_code = 1
    /\ main_outcome \in { "KeyboardInterrupt", "Exception", "SystemExit" }
         => pc = "exited" /\ exit_code = 1
    /\ main_outcome = "KeyboardInterrupt"
         => /\ ~ENABLED StartStep
            /\ ~ENABLED RunCommand
            /\ invoked = SubSeq(steps, 1, i)

C9_Witness ==
    /\ pc = "exited"
    /\ exit_code = 0
    /\ Len(steps) = 3
    /\ Len(failed_steps) = 3

\* an interrupt in the middle of the first of several step actions
C9_InterruptWitness ==
    /\ pc = "exited"
    /\ main_outcome = "KeyboardInterrupt"
    /\ exit_code = 1
    /\ Len(steps) > 1
    /\ invoked = << steps[1] >>
    /\ successful_steps = << >> /\ failed_steps = << >>
    /\ "command" \in started

\* the lines of an rc file that carry a marker
Carriers(shell_content, marker) ==
    { k \in DOMAIN shell_content : marker \in MarkersIn(shell_content[k]) }

\* C10: a run of configure_shell_paths that follows another run, with the
\* tools unchanged between them, appends nothing; and after any number of
\* runs each of the four blocks is in each rc file at most once (no marker
\* is carried by two lines).
C10_PathsIdempotent ==
    /\ runs_in_a_row = 2 => additions = << >>
    /\ \A f \in RcFiles :
          /\ \A b \in { HomebrewBlock, CargoBlock, NvmBlock, FzfBlock } :
                Occurrences(b, rc_content[f]) <= 1
          /\ \A marker \in Markers :
                Cardinality(Carriers(rc_content[f], marker)) <= 1

\* all four blocks were appended by one run, and the next run added nothing
C10_Witness ==
    /\ runs_in_a_row = 2
    /\ additions = << >>
    /\ \E f \in RcFiles :
          { HomebrewBlock, CargoBlock, NvmBlock, FzfBlock } \subseteq Range(rc_content[f])

\* the seconds a duration text << D, H, MM, SS >> stands for
SecondsOf(text) == text[1] * 86400 + text[2] * 3600 + text[3] * 60 + text[4]

\* C11: get_time_remaining returns "Calculating..." whenever no step is
\* completed, whatever the total and the elapsed time; with completed > 0 it
\* returns a well-formed duration of (elapsed / completed) * (total - completed)
\* seconds with the fraction of a second dropped.
C11_TimeRemaining ==
    time_call.fn = "get_time_remaining" =>
        LET completed == time_call.current_step
            num == time_call.elapsed * (time_call.total_steps - completed)
            den == completed * TicksPerSecond
            secs == SecondsOf(time_returned)
        IN  /\ completed = 0 => time_returned = << "Calculating..." >>
            /\ completed > 0 =>
                 /\ Len(time_returned) = 4
                 /\ time_returned[2] \in 0..23
                 /\ time_returned[3] \in 0..59
                 /\ time_returned[4] \in 0..59
                 /\ num >= 0 => secs * den <= num /\ num < (secs + 1) * den
                 /\ num < 0 => (secs - 1) * den < num /\ num <= secs * den

\* C11 witness: completed = 2, total = 4, 100 seconds elapsed: 0:01:40
C11_Witness ==
    /\ time_call = [ fn |-> "get_time_remaining", current_step |-> 2,
                     total_steps |-> 4, elapsed |-> 100 * TicksPerSecond ]
    /\ time_returned = << 0, 0, 1, 40 >>

\* the place of a task name in the order GUI or 'Brew Packages', 'Rust',
\* 'Node', 'Zsh': the first of the four whose marker it holds, 5 when it
\* holds none
CategoryMarkers ==
    << { MarkerGUI, MarkerBrewPackages }, { MarkerRust }, { MarkerNode },
       { MarkerZsh } >>

Category(task_name) ==
    LET matching == { c \in DOMAIN CategoryMarkers :
                        \E m \in CategoryMarkers[c] : In(m, task_name) }
    IN  IF matching = {} THEN 5
        ELSE CHOOSE c \in matching : \A d \in matching : c <= d

HowMany(tasks, c) == Cardinality({ k \in DOMAIN tasks : Category(tasks[k]) = c })

\* C12: estimate_total_time returns the sum of one estimate per task, by the
\* category of the task name, the gui_app estimate counting ten times; the
\* sum depends on how many tasks of each category there are, not on their
\* order, and is 0 for the empty list.
C12_EstimateIsSumByCategory ==
    time_call.fn = "estimate_total_time" =>
        LET tasks == time_call.tasks
        IN  time_returned =
                HowMany(tasks, 1) * (estimates.gui_app * 10)
              + HowMany(tasks, 2) * estimates.rust_install
              + HowMany(tasks, 3) * estimates.node_install
              + HowMany(tasks, 4) * estimates.oh_my_zsh
              + HowMany(tasks, 5) * estimates.configuration

\* C12 witness: a name with 'Rust' and 'GUI' counts as GUI, a lower-case
\* 'rust' as configuration: 30 * 10 + 5 with the default estimates
C12_Witness ==
    /\ time_call.fn = "estimate_total_time"
    /\ time_call.tasks = << << "R", "u", "s", "t", " ", "G", "U", "I" >>,
                            << "i", "n", "s", "t", "a", "l", "l", " ", "r", "u", "s", "t" >> >>
    /\ estimates = DefaultEstimates
    /\ time_returned = 305

\* C13: in every state of a run the progress tracker's completed_steps is at
\* most its total_steps: at construction, after each start_step(name, i, N) of
\* the loop and after each complete_step, whichever steps fail.
C13_CompletedAtMostTotal ==
    /\ progress.completed_steps >= 0
    /\ progress.completed_steps <= progress.total_steps

\* C13 witness: the last of three steps has completed after an earlier one
\* failed, and the tracker counts all three
C13_Witness ==
    /\ pc = "loop"
    /\ i = 3
    /\ failed_steps # << >>
    /\ progress.total_steps = 3
    /\ progress.completed_steps = 3

\* the entries the last call of run_command appended to the detail log
LastCallEntries ==
    LET from == CHOOSE k \in Executions(detail_log) :
                    \A j \in Executions(detail_log) : j <= k
    IN  SubSeq(detail_log, from, Len(detail_log))

\* C14: when the command outlives its timeout, run_command raises nothing and
\* returns a result with returncode 1 whose stdout says that the command timed
\* out after that many seconds, whatever shell, check, show_output and verbose
\* are.
C14_TimeoutIsAReturnedFailure ==
    (cmd_call.fn = "run_command" /\ cmd_call.process.outcome = "timeout") =>
        /\ ~cmd_returned.raised
        /\ cmd_returned.returncode = 1
        /\ cmd_returned.stdout =
              { << "Command timed out after " >> \o Decimal(cmd_call.timeout)
                \o << " seconds" >> }

\* C14 witness: a timeout of a shell command run with check and show_output
C14_Witness ==
    /\ cmd_call.fn = "run_command"
    /\ cmd_call.process.outcome = "timeout"
    /\ cmd_call.shell /\ cmd_call.check /\ cmd_call.show_output
    /\ cmd_call.cmd.kind = "str"
    /\ ~cmd_returned.raised
    /\ cmd_returned.returncode = 1
    /\ cmd_returned.stdout = { << "Command timed out after ", "6", "0", "0", " seconds" >> }

\* C15: every call of run_command whose process was started leaves in the
\* detail log the command text, what the process wrote to stdout and what it
\* wrote to stderr, whatever the outcome and the flags.
C15_EveryCallFullyLogged ==
    (cmd_call.fn = "run_command" /\ cmd_call.process.outcome # "oserror") =>
        LET written == LastCallEntries
            Holds(text) == \E k \in DOMAIN written : In(text, written[k].message)
        IN  /\ Holds(cmd_str(cmd_call.cmd))
            /\ cmd_call.process.stdout # << >> => Holds(cmd_call.process.stdout)
            /\ cmd_call.process.stderr # << >> => Holds(cmd_call.process.stderr)

(***************************************************************************)
(* What one step of main() adds to the log file and to the console.        *)
(***************************************************************************)
NewLog == SubSeq(log_file', Len(log_file) + 1, Len(log_file'))

NewConsole == SubSeq(console', Len(console) + 1, Len(console'))

\* the lines that print wrote, and those a logging handler echoed
Prints(lines) == SelectSeq(lines, LAMBDA l : l.via = "print")

Echoes(lines) == SelectSeq(lines, LAMBDA l : l.via # "print")

TrackerEntry(what, step, text) ==
    [ level |-> "INFO", what |-> what, step |-> step, text |-> text ]

TrackerPrint(what, step, text) ==
    [ via |-> "print", what |-> what, step |-> step, text |-> text, chars |-> << >> ]

EchoOf(via, what, step, text) ==
    [ via |-> via, what |-> what, step |-> step, text |-> text, chars |-> << >> ]

\* the three operations of the tracker, as steps of main()
StartsStep == pc = "loop" /\ pc' = "in_step"

UpdatesProgress == pc = "in_step" /\ updates' > updates

CompletesStep == pc = "in_step" /\ pc' = "loop"

\* the claim as stated: the entry is in the log file whatever the log_level,
\* the print is on the console exactly when verbosity is not minimal
AlwaysLogged(what, printed, step, text) ==
    /\ NewLog = << TrackerEntry(what, step, text) >>
    /\ Prints(NewConsole) = IF config.output_mode # "minimal"
                              THEN << TrackerPrint(printed, step, text) >>
                              ELSE << >>

\* C16 as stated: start_step, update_progress and complete_step each record
\* their entry in the log file under every log_level and at every verbosity,
\* and print to the console exactly when verbosity is not minimal.
C16_TrackerLogsUnconditionally ==
    [][ /\ StartsStep => AlwaysLogged("Starting Step", "banner", steps[i + 1], "")
        /\ UpdatesProgress => AlwaysLogged("update", "update", "", UpdateMessages[updates'])
        /\ CompletesStep => AlwaysLogged("Completed", "[COMPLETE]", steps[i], "")
      ]_vars

\* the entry is recorded when the logger's level lets an INFO record pass; the
\* print depends on the verbosity alone, the log file on the log_level alone;
\* the record is echoed by the console handler unless minimal, and by the root
\* handler once a failed notification has installed it
LoggedFromInfo(what, printed, step, text) ==
    LET recorded == logger.level \in { "DEBUG", "INFO" }
    IN  /\ NewLog = IF recorded THEN << TrackerEntry(what, step, text) >> ELSE << >>
        /\ Prints(NewConsole) = IF config.output_mode # "minimal"
                                  THEN << TrackerPrint(printed, step, text) >>
                                  ELSE << >>
        /\ Echoes(NewConsole) =
               (IF recorded /\ config.output_mode # "minimal"
                  THEN << EchoOf("console_handler", what, step, text) >> ELSE << >>)
            \o (IF recorded /\ logger.root_handler
                  THEN << EchoOf("root_handler", what, step, text) >> ELSE << >>)

\* C16 (amended): start_step, update_progress and complete_step each record
\* their entry in the log file exactly when the configured log_level is DEBUG
\* or INFO, at every verbosity alike, and print their banner, message or
\* completion marker exactly when verbosity is not minimal.
C16_TrackerLogsFromInfo ==
    [][ /\ StartsStep => LoggedFromInfo("Starting Step", "banner", steps[i + 1], "")
        /\ UpdatesProgress => LoggedFromInfo("update", "update", "", UpdateMessages[updates'])
        /\ CompletesStep => LoggedFromInfo("Completed", "[COMPLETE]", steps[i], "")
      ]_vars

\* a run at normal verbosity under log_level WARNING in which the three
\* operations have acted: their prints are on the console, the log file has
\* no entry of theirs
C16_Witness ==
    /\ pc = "summary"
    /\ config.output_mode = "normal"
    /\ logger.level = "WARNING"
    /\ "Install Brew Packages" \in Range(successful_steps)
    /\ \E k \in DOMAIN console : console[k] = TrackerPrint("banner", "Install Brew Packages", "")
    /\ \E k \in DOMAIN console : console[k] = TrackerPrint("update", "", UpdateMessages[2])
    /\ \E k \in DOMAIN console :
         console[k] = TrackerPrint("[COMPLETE]", "Install Brew Packages", "")
    /\ \A k \in DOMAIN log_file : log_file[k].level # "INFO"

(***************************************************************************)
(* The summary, once main() has printed it.                                *)
(***************************************************************************)
SummaryPrinted == pc = "notify_complete"

\* the lines of the summary that name the step with the outcome
OutcomeLines(outcome, name) ==
    { k \in DOMAIN console : /\ console[k].via = "print"
                             /\ console[k].what = outcome
                             /\ console[k].step = name }

\* the first SummaryErrorLength characters of the error text, then the dots
Cut(error) ==
    LET c == Chars(error)
        n == IF Len(c) > SummaryErrorLength THEN SummaryErrorLength ELSE Len(c)
    IN  [ k \in 1..n |-> c[k] ] \o << ".", ".", "." >>

\* the log file holds the full text of the step's error
FullErrorLogged(name, error) ==
    \E k \in DOMAIN log_file :
        log_file[k] = [ level |-> "ERROR", what |-> "Step failed", step |-> name,
                        text |-> error ]

\* every step is listed once, with its outcome
EveryStepListed ==
    \A k \in DOMAIN steps :
        LET name == steps[k]
        IN  IF name \in Range(successful_steps)
              THEN /\ Cardinality(OutcomeLines("succeeded", name)) = 1
                   /\ OutcomeLines("failed", name) = {}
              ELSE /\ Cardinality(OutcomeLines("failed", name)) = 1
                   /\ OutcomeLines("succeeded", name) = {}

\* the line of every failed step shows the cut error text
ErrorsCut ==
    \A k \in DOMAIN failed_steps :
        \A l \in OutcomeLines("failed", failed_steps[k][1]) :
            console[l].chars = Cut(failed_steps[k][2])

CountLine ==
    [ via |-> "print", what |-> "Completed", step |-> "", text |-> "",
      chars |-> Decimal(Len(successful_steps)) \o << "/" >> \o Decimal(Len(steps)) ]

AtNotification == pc \in { "notify_start", "except", "notify_complete" }

\* what the run's outcome is made of
outcome_vars == << steps, i, invoked, successful_steps, failed_steps,
                   main_outcome, exit_code >>

\* C18: whatever becomes of a notification (delivered, osascript exits
\* non-zero, osascript cannot be started), the step of main() that sends it
\* continues the same way: the steps run, their order, the steps recorded as
\* succeeded and as failed and the exit code are those of the run in which
\* every notification is delivered.
C18_NotificationNeverChangesOutcome ==
    [][ (AtNotification /\ main_outcome' # "KeyboardInterrupt") =>
          CASE pc = "notify_start" ->
                 /\ pc' = "show_plan"
                 /\ UNCHANGED outcome_vars
            [] pc = "except" ->
                 /\ pc' = "loop"
                 /\ failed_steps' = Append(failed_steps, << steps[i], pending_error >>)
                 /\ UNCHANGED << steps, i, invoked, successful_steps,
                                 main_outcome, exit_code >>
            [] pc = "notify_complete" ->
                 /\ pc' = "exited"
                 /\ main_outcome' = "return"
                 /\ exit_code' = 0
                 /\ UNCHANGED << steps, i, invoked, successful_steps, failed_steps >>
      ]_vars

\* a finished run with a failed step and a succeeded one in which the start,
\* error and completion notifications were all due and osascript could never
\* be started
C18_Witness ==
    /\ pc = "exited"
    /\ main_outcome = "return"
    /\ exit_code = 0
    /\ config.notifications_enabled
    /\ NotifyOn("on_error")
    /\ NotifyOn("on_complete")
    /\ failed_steps # << >>
    /\ successful_steps # << >>
    /\ invoked = steps
    /\ logger.root_handler
    /\ "osascript" \notin started

(***************************************************************************)
(* The order of the step actions.                                          *)
(***************************************************************************)
\* the number of steps whose outcome is recorded
Recorded == Len(successful_steps) + Len(failed_steps)

\* C19: in a run that is not a dry run and is not interrupted, the actions
\* are invoked in list order, each once: the invoked actions are a prefix of
\* the step list and, when main() returns, the whole list; an action is
\* started only when the outcome of every action before it is recorded, so
\* that only inside a step and its except clause one outcome is outstanding;
\* a failed step is invoked once.
C19_EachStepOnceInOrder ==
    (~args.dry_run /\ main_outcome # "KeyboardInterrupt") =>
        /\ Len(invoked) <= Len(steps)
        /\ invoked = SubSeq(steps, 1, Len(invoked))
        /\ i = Len(invoked)
        /\ IF pc \in { "in_step", "except" }
             THEN Recorded = Len(invoked) - 1
             ELSE Recorded = Len(invoked)
        /\ main_outcome = "return" => invoked = steps
        /\ \A k \in DOMAIN failed_steps : Occurrences(failed_steps[k][1], invoked) = 1
        /\ \A k \in DOMAIN successful_steps : Occurrences(successful_steps[k], invoked) = 1

\* a returned run of three steps, the second of which failed
C19_Witness ==
    /\ pc = "exited"
    /\ main_outcome = "return"
    /\ ~args.dry_run
    /\ Len(steps) = 3
    /\ invoked = steps
    /\ successful_steps = << steps[1], steps[3] >>
    /\ FailedNames = << steps[2] >>

(***************************************************************************)
(* The block of github.com in ~/.ssh/config.                               *)
(***************************************************************************)
\* the text of ~/.ssh/config, empty while there is no file
ContentOf(dir) == Get(dir.config, << >>)

\* how often the marker occurs in the text
MarkerCount(text) ==
    Cardinality({ k \in 1..Len(text) :
                    k + 2 <= Len(text) /\ SubSeq(text, k, k + 2) = HostGithub })

IsPrefix(a, b) == Len(a) <= Len(b) /\ SubSeq(b, 1, Len(a)) = a

\* the last call came to the update of ~/.ssh/config and could make it:
\* key generation and the keychain are not disabled, ssh-keygen could be
\* started where the key was missing, and the file could be read and, where
\* the marker was missing, written
UpdatedConfig ==
    /\ ssh_call.fn = "generate_ssh_key"
    /\ Get(ssh_call.ssh_config.generate_key, TRUE)
    /\ Get(ssh_call.ssh_config.add_to_keychain, TRUE)
    /\ \/ KeyPath(ssh_call.ssh_config) \in ssh_call.before.keys
       \/ ssh_call.keygen # "oserror"
    /\ \/ ssh_call.before.config = {}
       \/ ssh_call.before.access = "rw"
       \/ /\ ssh_call.before.access = "r"
          /\ MarkerCount(ContentOf(ssh_call.before)) > 0

\* C20: after any number of runs of generate_ssh_key, from a missing file, a
\* file without the marker or a file with it, 'Host github.com' is never in
\* ~/.ssh/config twice, it is there exactly once after every run that has
\* updated the file with add_to_keychain enabled, and the text that was in
\* the file before is still its beginning, unchanged: a run leaves the file
\* as it was or appends the one block.
C20_HostBlockNeverDuplicated ==
    /\ MarkerCount(ContentOf(ssh_dir)) <= 1
    /\ UpdatedConfig => MarkerCount(ContentOf(ssh_dir)) = 1
    /\ MarkerCount(ContentOf(ssh_initial)) = 1 => ContentOf(ssh_dir) = ContentOf(ssh_initial)
    /\ IsPrefix(ContentOf(ssh_initial), ContentOf(ssh_dir))
    /\ ssh_initial.config # {} => ssh_dir.config # {}
    /\ ssh_call.fn = "generate_ssh_key" =>
          \/ ssh_dir.config = ssh_call.before.config
          \/ /\ MarkerCount(ContentOf(ssh_call.before)) = 0
             /\ ContentOf(ssh_dir) =
                   ContentOf(ssh_call.before)
                     \o ConfigContent(KeyPath(ssh_call.ssh_config))

\* two runs on a file that held the block of another host: the first
\* appended the block, the second, for another key, found the marker and
\* left the file alone
C20_Witness ==
    /\ ssh_runs = 2
    /\ UpdatedConfig
    /\ ContentOf(ssh_initial) # << >>
    /\ MarkerCount(ContentOf(ssh_initial)) = 0
    /\ MarkerCount(ContentOf(ssh_call.before)) = 1
    /\ ssh_call.ssh_config.key_name = { "work" }
    /\ ContentOf(ssh_dir) = ContentOf(ssh_initial) \o ConfigContent(KeyPath(
           [ generate_key |-> {}, add_to_keychain |-> {}, key_type |-> {},
             key_name |-> {} ]))
    /\ MarkerCount(ContentOf(ssh_dir)) = 1

(***************************************************************************)
(* The output mode of the run.                                             *)
(***************************************************************************)
\* setup_logging has configured the logger: the output mode is resolved
Resolved == logger # NoLogger

====
